---- MODULE Spec2Model ----
(***************************************************************************)
(* Echo-Frame watch-party backend: the Socket.IO room registry, playback   *)
(* control handlers and viewer-request queue (app/core/socketio_manager),  *)
(* the guest moderation service (app/services/guest_service, app/api/v1),  *)
(* and the Redis chat/reaction store (app/core/redis_chat).                *)
(*                                                                         *)
(* Scales: media positions are counted in half seconds (position 20 is     *)
(* 10.0 s, a difference of 1 is 0.5 s); the clock `now` counts seconds.    *)
(***************************************************************************)
EXTENDS Integers, Sequences, FiniteSets, TLC

VARIABLES
    room_connections,   \* socketio_manager.room_connections: room -> guest -> entry
    room_order,         \* the keys of room_connections, in insertion order
    connections,        \* each Socket.IO connection: open, in its disconnect handler, closed
    last_join,          \* per (room, guest), the arguments of the last join_room
    pending_requests,   \* socketio_manager.pending_requests: request id -> request
    next_request_id,    \* the next fresh uuid4 of request:pause / request:rewind
    video_state,        \* the stored Playback State of each room: {} or {state}
    now,                \* datetime.utcnow(), in seconds
    outbox,             \* the events the last handler emitted, in order
    last_video_state,   \* per room, the last video_state broadcast to the room
    call,               \* the last handler call and its arguments
    before,             \* video_state and pending_requests as the last call found them
    sweep_at,           \* cleanup_old_requests: when its asyncio.sleep(60) ends
    sweep_expired,      \* cleanup_old_requests suspended in an emit: the rest of expired
    handlers,           \* the control handlers in progress, each at one of its awaits
    chat_messages,      \* Redis list chat:{room}:messages, of JSON strings
    chat_reactions,     \* Redis hash chat:{room}:reactions:{message}: emoji -> JSON list
    next_message_id,    \* the next fresh uuid4 of add_message
    chat_call,          \* the last chat service call, what it found and what it returned
    chat_prev,          \* the chat service call before that
    guests,             \* the committed rows of table guests: guest id -> row
    db_sessions,        \* the database session of each API request in progress
    row_lock,           \* per guest row, the session whose uncommitted write holds it
    rooms,              \* the committed rows of table rooms: id -> [is_active, ended_at]
    room_sessions,      \* each create_room request's database session
    next_room_id,       \* how many room ids (uuid4) have been generated
    bans,               \* Redis keys ban:ip:{room}:{ip}, ban:fp:{room}:{fingerprint} -> TTL
    redis_up,           \* whether RedisClient.set reaches Redis (connected, no error)
    promoted            \* per guest, whether a promote_guest has completed since the last demote

vars == <<room_connections, pending_requests, next_request_id, video_state,
          now, outbox, last_video_state, call, before,
          chat_messages, chat_reactions, next_message_id, chat_call, chat_prev,
          guests, db_sessions, row_lock, promoted, sweep_at, sweep_expired,
          room_order, connections, last_join, rooms, room_sessions, next_room_id,
          bans, redis_up, handlers>>

room_vars == <<rooms, room_sessions, next_room_id, bans, redis_up>>

db_vars == <<guests, db_sessions, row_lock, promoted, room_vars>>

\* The tasks of socketio_manager: the sweep and the handlers in progress.
task_vars == <<sweep_at, sweep_expired, handlers>>

\* What only join_room, leave_room and disconnect change.
registry_vars == <<room_order, connections, last_join>>

socket_vars == <<room_connections, pending_requests, next_request_id, video_state,
                 now, outbox, last_video_state, call, before, task_vars, registry_vars>>

chat_vars == <<chat_messages, chat_reactions, next_message_id, chat_call, chat_prev>>

----------------------------------------------------------------------------
(* Bounds and input sets *)

MaxRequests == 2
MaxTime == 3

\* cleanup_old_requests: asyncio.sleep(60) between sweeps, and the age (in seconds)
\* a request must exceed to be expired.
SweepInterval == 60
RequestMaxAge == 60

\* SpecSweep: the clock advances in steps of TickSeconds, and keeps going past
\* MaxSweepTime only while a request is pending.
TickSeconds == 30
MaxSweepTime == 60

Rooms == {"r1"}
\* The rooms clients announce themselves in.  room_connections maps a room without a
\* key to the empty dict; room_order holds the keys.
RegistryRooms == {"r1", "r2", "r3"}
Guests == {"g1", "g2"}
Sids == {"s1", "s2"}
Videos == {"v1", "v2"}
Positions == {0, 1, 20}
RewindSeconds == {4}
Requesters == {"g2"}
RequestRooms == {"r1", "r2"}    \* the room_id a request:pause / request:rewind names

\* The role each client announces in join_room (the payload's role field).
JoinRoles(g) == IF g = "g1" THEN {"moderator"} ELSE {"viewer"}
ClockJoinRoles(g) == IF g = "g1" THEN {"moderator", "admin"} ELSE {"viewer"}

Missing == ""          \* a payload field that is absent (data.get gives None)
NoVideo == "none"      \* current_video_id = None

\* The room_id of a control payload: absent only together with the first position
\* or video (what else the payload carries makes no difference then).
RoomInputs(first) == IF first THEN Rooms \cup {Missing} ELSE Rooms

SidOf(g) == IF g = "g1" THEN "s1" ELSE "s2"

\* The Socket.IO connections: guest g1 also has a second one, s1b.
Connections == Sids \cup {"s1b"}
GuestOf(sid) == IF sid = "s2" THEN "g2" ELSE "g1"
Open == [pc |-> "open"]
Closed == [pc |-> "closed"]
DefaultName == "User"       \* data.get('username', 'User')

\* Chat inputs.  Message ids are numbers: 1 and 2 are ids clients supply, NoId is
\* an absent id, GeneratedBase + n is the n-th id add_message generates itself and
\* StoredBase + i is the id of the i-th message of a log that is already full.
MaxGenerated == 1
NoId == 0
GeneratedBase == 100
StoredBase == 1000
MessageIds == {1, 2}
PostedIds == {1, NoId}   \* the message_id of add_message: client-supplied or absent
Users == {"u1", "u2"}
Emojis == {"thumbsup", "heart"}
NoTimestamp == -1      \* timestamp = None
Posts == {[user_id |-> "u1", username |-> "alice", message |-> "hi",
           timestamp |-> NoTimestamp],
          [user_id |-> "u2", username |-> "bob", message |-> "hi-changed",
           timestamp |-> 7]}
Limits == {0, 1, 50}
\* Database sessions (one per API request in progress) and permission patches.
Sessions == {"a", "b"}
Handlers == {"h1", "h2"}        \* the tasks that run overlapping control handlers
Idle == [pc |-> "idle"]
Patches == {[can_chat |-> FALSE], [can_chat |-> TRUE, can_voice |-> TRUE]}
NoPatch == [none |-> TRUE]

\* Who reacts to which message.
Reactors(m) == IF m = 1 THEN Users ELSE {"u1"}

----------------------------------------------------------------------------
(* Helpers *)

Max(a, b) == IF a >= b THEN a ELSE b

Event(name, kind, to, payload) ==
    [name |-> name, kind |-> kind, to |-> to, payload |-> payload]

ToSid(sid, name, payload) == Event(name, "sid", sid, payload)
ToRoom(room, name, payload) == Event(name, "room", room, payload)

IsVideoStateTo(e, r) == e.name = "video_state" /\ e.kind = "room" /\ e.to = r

\* The last video_state broadcast to room r among the events evs, as {} or {state}.
LastVideoStateIn(evs, r) ==
    LET idx == {i \in 1..Len(evs) : IsVideoStateTo(evs[i], r)}
    IN  IF idx = {} THEN {}
        ELSE {evs[CHOOSE i \in idx : \A j \in idx : j <= i].payload}

\* sio.emit: the handler's events leave in order; the room's last video_state follows.
Emit(evs) ==
    /\ outbox' = evs
    /\ before' = [video_state |-> video_state, pending_requests |-> pending_requests,
                  room_connections |-> room_connections]
    /\ last_video_state' =
         [r \in Rooms |-> IF LastVideoStateIn(evs, r) # {}
                          THEN LastVideoStateIn(evs, r)
                          ELSE last_video_state[r]]

\* A Socket.IO handler's events: the handlers touch neither the chat store nor the
\* database.
Deliver(evs) == Emit(evs) /\ UNCHANGED <<chat_vars, db_vars, task_vars, registry_vars>>

\* redis_client.get_video_state(room_id): the stored state, or None ({}).
get_video_state(room_id) ==
    IF room_id \in DOMAIN video_state THEN video_state[room_id] ELSE {}

\* redis_client.set_video_state(room_id, state), as the new store.
set_video_state(room_id, state) == [video_state EXCEPT ![room_id] = {state}]

TheState(s) == CHOOSE x \in s : TRUE

get_user_role(guest_id, room_id) ==
    IF /\ \E i \in 1..Len(room_order) : room_order[i] = room_id
       /\ guest_id \in DOMAIN room_connections[room_id]
    THEN room_connections[room_id][guest_id].role
    ELSE "viewer"

is_admin_or_mod(role) == role \in {"admin", "moderator"}

PlaybackState(video, playing, ts, by) ==
    [current_video_id |-> video, is_playing |-> playing, current_timestamp |-> ts,
     last_updated |-> now, controlled_by |-> by]

ErrorTo(sid, msg) == ToSid(sid, "error", [message |-> msg])

\* Mutant: the pending requests of type t of every room.
RECURSIVE RequestsOfEveryRoom(_, _, _)
RequestsOfEveryRoom(room_id, t, upto) ==
    IF upto = 0 THEN <<>>
    ELSE LET rest == RequestsOfEveryRoom(room_id, t, upto - 1)
         IN  IF upto \in DOMAIN pending_requests /\ pending_requests[upto].type = t
             THEN Append(rest, upto) ELSE rest

\* The ids of the pending requests of room room_id and type t, in insertion order.
RECURSIVE RequestsOf(_, _, _)
RequestsOf(room_id, t, upto) ==
    IF upto = 0 THEN <<>>
    ELSE LET rest == RequestsOf(room_id, t, upto - 1)
         IN  IF upto \in DOMAIN pending_requests
                /\ pending_requests[upto].room_id = room_id
                /\ pending_requests[upto].type = t
             THEN Append(rest, upto) ELSE rest

SeqToSet(s) == {s[i] : i \in 1..Len(s)}

Without(f, ids) == [k \in DOMAIN f \ ids |-> f[k]]

Min(a, b) == IF a <= b THEN a ELSE b

\* json.dumps / json.loads: the encoded text is not the value it encodes.
json_dumps(v) == [json |-> v]
json_loads(s) == s.json

\* Redis LRANGE key start stop on a list (0-based, negative indices count from the end).
LRange(list, start, stop) ==
    LET n == Len(list)
        first == IF start < 0 THEN Max(n + start, 0) ELSE start
        last == IF stop < 0 THEN n + stop ELSE Min(stop, n - 1)
    IN  IF first > last \/ first >= n THEN <<>> ELSE SubSeq(list, first + 1, last + 1)

\* Redis hashes: HGET gives {} (None) or {value}.
EmptyHash == [e \in {} |-> json_dumps(<<>>)]
hget(h, field) == IF field \in DOMAIN h THEN {h[field]} ELSE {}
hset(h, field, v) == [e \in DOMAIN h \cup {field} |-> IF e = field THEN v ELSE h[e]]
hdel(h, field) == [e \in DOMAIN h \ {field} |-> h[e]]

----------------------------------------------------------------------------
(* Initial state: the module's globals after import *)

SocketInit ==
    /\ room_connections = [r \in RegistryRooms |-> <<>>]
    /\ pending_requests = <<>>
    /\ next_request_id = 1
    /\ video_state = [r \in Rooms |-> {}]
    /\ now = 0
    /\ outbox = <<>>
    /\ last_video_state = [r \in Rooms |-> {}]
    /\ call = [op |-> "init"]
    /\ before = [video_state |-> [r \in Rooms |-> {}], pending_requests |-> <<>>,
                 room_connections |-> [r \in RegistryRooms |-> <<>>]]
    /\ room_order = <<>>
    /\ connections = [c \in Connections |-> Open]
    /\ last_join = [k \in RegistryRooms \X Guests |-> {}]
    /\ sweep_at = SweepInterval
    /\ sweep_expired = {}
    /\ handlers = [h \in Handlers |-> Idle]

ChatInit ==
    /\ chat_messages = [r \in Rooms |-> <<>>]
    /\ chat_reactions = [r \in Rooms |-> [m \in MessageIds |-> EmptyHash]]
    /\ next_message_id = 1
    /\ chat_call = [op |-> "init"]
    /\ chat_prev = [op |-> "init"]

\* No room has been created.
RoomInit ==
    /\ rooms = <<>>
    /\ room_sessions = [s \in Sessions |-> Idle]
    /\ next_room_id = 1
    /\ bans = <<>>
    /\ redis_up = TRUE

DbInit ==
    /\ guests = <<>>
    /\ db_sessions = [s \in Sessions |-> Idle]
    /\ row_lock = [g \in Guests |-> {}]
    /\ promoted = [g \in Guests |-> FALSE]
    /\ RoomInit

Init == SocketInit /\ ChatInit /\ DbInit

----------------------------------------------------------------------------
(* Presence registry *)

\* Mutant: a join_room that keeps the entry a guest already has.
join_room_once(sid, room_id, guest_id, role, username) ==
    /\ call' = [op |-> "join_room", sid |-> sid, room_id |-> room_id,
                guest_id |-> guest_id, role |-> role, username |-> username]
    /\ room_connections' =
         [room_connections EXCEPT ![room_id] =
            [g \in DOMAIN @ \cup {guest_id} |->
                IF g \in DOMAIN @ THEN @[g]
                ELSE [sid |-> sid, role |-> role, username |-> username]]]
    /\ room_order' = IF \E i \in 1..Len(room_order) : room_order[i] = room_id
                     THEN room_order ELSE Append(room_order, room_id)
    /\ last_join' = [last_join EXCEPT ![<<room_id, guest_id>>] =
                        {[sid |-> sid, role |-> role, username |-> username]}]
    /\ Emit(<<>>)
    /\ UNCHANGED <<pending_requests, next_request_id, video_state, now, connections,
                   chat_vars, db_vars, task_vars>>

\* Mutant: a join_room that sends the stored state to the whole room.
join_room_to_room(sid, room_id, guest_id, role, username) ==
    /\ call' = [op |-> "join_room", sid |-> sid, room_id |-> room_id,
                guest_id |-> guest_id, role |-> role, username |-> username]
    /\ room_connections' =
         [room_connections EXCEPT ![room_id] =
            [g \in DOMAIN @ \cup {guest_id} |->
                IF g = guest_id
                THEN [sid |-> sid, role |-> role, username |-> username]
                ELSE @[g]]]
    /\ room_order' = IF \E i \in 1..Len(room_order) : room_order[i] = room_id
                     THEN room_order ELSE Append(room_order, room_id)
    /\ last_join' = [last_join EXCEPT ![<<room_id, guest_id>>] =
                        {[sid |-> sid, role |-> role, username |-> username]}]
    /\ Emit(<<[name |-> "user_joined", kind |-> "room_skip", to |-> room_id,
               payload |-> [guest_id |-> guest_id, username |-> username,
                            role |-> role, skip_sid |-> sid]]>>
            \o (IF get_video_state(room_id) # {}
                THEN <<ToRoom(room_id, "video_state", TheState(get_video_state(room_id)))>>
                ELSE <<>>))
    /\ UNCHANGED <<pending_requests, next_request_id, video_state, now, connections,
                   chat_vars, db_vars, task_vars>>

join_room(sid, room_id, guest_id, role, username) ==
    /\ call' = [op |-> "join_room", sid |-> sid, room_id |-> room_id,
                guest_id |-> guest_id, role |-> role, username |-> username]
    /\ IF room_id = Missing \/ guest_id = Missing
       THEN /\ Emit(<<ErrorTo(sid, "Missing room_id or guest_id")>>)
            /\ UNCHANGED <<room_connections, room_order, last_join>>
       ELSE /\ room_connections' =
                 [room_connections EXCEPT ![room_id] =
                    [g \in DOMAIN @ \cup {guest_id} |->
                        IF g = guest_id
                        THEN [sid |-> sid, role |-> role, username |-> username]
                        ELSE @[g]]]
            /\ room_order' = IF \E i \in 1..Len(room_order) : room_order[i] = room_id
                             THEN room_order ELSE Append(room_order, room_id)
            /\ last_join' = [last_join EXCEPT ![<<room_id, guest_id>>] =
                                {[sid |-> sid, role |-> role, username |-> username]}]
            /\ Emit(<<[name |-> "user_joined", kind |-> "room_skip", to |-> room_id,
                       payload |-> [guest_id |-> guest_id, username |-> username,
                                    role |-> role, skip_sid |-> sid]]>>
                    \o (IF get_video_state(room_id) # {}
                        THEN <<ToSid(sid, "video_state", TheState(get_video_state(room_id)))>>
                        ELSE <<>>))
    /\ UNCHANGED <<pending_requests, next_request_id, video_state, now, connections,
                   chat_vars, db_vars, task_vars>>

------------------------------------------------------------------------

\* get_guest_presence(room_id, guest_id): offline_since is None ({}) in both answers.
get_guest_presence(room_id, guest_id) ==
    IF /\ \E i \in 1..Len(room_order) : room_order[i] = room_id
       /\ guest_id \in DOMAIN room_connections[room_id]
    THEN [online |-> TRUE, offline_since |-> {}, stale |-> FALSE]
    ELSE [online |-> FALSE, offline_since |-> {}, stale |-> FALSE]

\* leave_room: the guest's entry is deleted whatever connection it holds.
leave_room(sid, room_id, guest_id) ==
    /\ call' = [op |-> "leave_room", sid |-> sid, room_id |-> room_id,
                guest_id |-> guest_id]
    /\ IF /\ room_id # Missing
          /\ guest_id # Missing
          /\ \E i \in 1..Len(room_order) : room_order[i] = room_id
          /\ guest_id \in DOMAIN room_connections[room_id]
       THEN /\ room_connections' =
                 [room_connections EXCEPT ![room_id] =
                    [g \in DOMAIN @ \ {guest_id} |-> @[g]]]
            /\ Emit(<<ToRoom(room_id, "user_left",
                             [guest_id |-> guest_id,
                              username |-> room_connections[room_id][guest_id].username])>>)
       ELSE /\ Emit(<<>>)
            /\ UNCHANGED room_connections
    /\ UNCHANGED <<pending_requests, next_request_id, video_state, now, registry_vars,
                   chat_vars, db_vars, task_vars>>

\* The guests of room room_id whose entry holds connection sid.
BoundTo(room_id, sid) ==
    {g \in DOMAIN room_connections[room_id] : room_connections[room_id][g].sid = sid}

\* The position in room_order, from position from on, of the first room with an entry
\* that holds sid; 0 when there is none.
Scan(sid, from) ==
    LET hits == {i \in from..Len(room_order) : BoundTo(room_order[i], sid) # {}}
    IN  IF hits = {} THEN 0 ELSE CHOOSE i \in hits : \A j \in hits : i <= j

\* disconnect's loop from room from on, up to its next await: the first matching
\* entry is deleted and user_left is sent to its room, where the handler is
\* suspended; without a match the loop ends.  used is the size of room_connections
\* when the iteration began.
disconnect_loop(sid, from, used) ==
    LET i == Scan(sid, from)
    IN  IF i = 0
        THEN /\ call' = [op |-> "disconnect", sid |-> sid, done |-> TRUE, raised |-> FALSE]
             /\ connections' = [connections EXCEPT ![sid] = Closed]
             /\ Emit(<<>>)
             /\ UNCHANGED room_connections
        ELSE LET room_id == room_order[i]
                 guest_id == CHOOSE g \in BoundTo(room_id, sid) : TRUE
             IN  /\ call' = [op |-> "disconnect", sid |-> sid, done |-> FALSE,
                             raised |-> FALSE]
                 /\ room_connections' =
                      [room_connections EXCEPT ![room_id] =
                         [g \in DOMAIN @ \ {guest_id} |-> @[g]]]
                 /\ connections' = [connections EXCEPT ![sid] =
                                       [pc |-> "emit", at |-> i, used |-> used]]
                 /\ Emit(<<ToRoom(room_id, "user_left",
                                  [guest_id |-> guest_id,
                                   username |->
                                      room_connections[room_id][guest_id].username])>>)

\* disconnect(sid), from its start to its first await.
disconnect(sid) ==
    /\ connections[sid] = Open
    /\ disconnect_loop(sid, 1, Len(room_order))
    /\ UNCHANGED <<pending_requests, next_request_id, video_state, now, room_order,
                   last_join, chat_vars, db_vars, task_vars>>

\* disconnect(sid) resumes when its await sio.emit returns: after the inner loop's
\* break the iterator over room_connections.items() is advanced, which raises
\* RuntimeError (dictionary changed size during iteration) when a key was added in
\* the meantime; the handler then ends there.
disconnect_resume(sid) ==
    /\ connections[sid].pc = "emit"
    /\ IF Len(room_order) # connections[sid].used
       THEN /\ call' = [op |-> "disconnect", sid |-> sid, done |-> TRUE, raised |-> TRUE]
            /\ connections' = [connections EXCEPT ![sid] = Closed]
            /\ Emit(<<>>)
            /\ UNCHANGED room_connections
       ELSE disconnect_loop(sid, connections[sid].at + 1, connections[sid].used)
    /\ UNCHANGED <<pending_requests, next_request_id, video_state, now, room_order,
                   last_join, chat_vars, db_vars, task_vars>>

----
(* Playback control handlers *)

\* The auto-dismissal at the end of video:pause (type pause) and video:seek (rewind).
AutoDismiss(room_id, t) ==
    LET dismissed == RequestsOf(room_id, t, MaxRequests)
    IN  [pending |-> Without(pending_requests, SeqToSet(dismissed)),
         events |-> IF dismissed # <<>>
                    THEN <<ToRoom(room_id, "requests_dismissed", [request_ids |-> dismissed])>>
                    ELSE <<>>]

video_play(sid, room_id, guest_id, timestamp) ==
    /\ call' = [op |-> "video:play", sid |-> sid, room_id |-> room_id,
                guest_id |-> guest_id, timestamp |-> timestamp]
    /\ IF room_id = Missing
       THEN /\ Deliver(<<ErrorTo(sid, "Missing room_id")>>)
            /\ UNCHANGED video_state
       ELSE IF ~is_admin_or_mod(get_user_role(guest_id, room_id))
       THEN /\ Deliver(<<ErrorTo(sid, "Unauthorized")>>)
            /\ UNCHANGED video_state
       ELSE LET existing == get_video_state(room_id)
                new_state == PlaybackState(
                    IF existing # {} THEN TheState(existing).current_video_id ELSE NoVideo,
                    TRUE, timestamp, guest_id)
            IN  /\ video_state' = set_video_state(room_id, new_state)
                /\ Deliver(<<ToRoom(room_id, "video_state", new_state)>>)
    /\ UNCHANGED <<room_connections, pending_requests, next_request_id, now>>

\* Mutant: video:pause held back by a debounce window on the room's last store.
video_pause_debounced(sid, room_id, guest_id, timestamp) ==
    /\ call' = [op |-> "video:pause", sid |-> sid, room_id |-> room_id,
                guest_id |-> guest_id, timestamp |-> timestamp]
    /\ IF room_id = Missing
       THEN /\ Deliver(<<ErrorTo(sid, "Missing room_id")>>)
            /\ UNCHANGED <<video_state, pending_requests>>
       ELSE IF ~is_admin_or_mod(get_user_role(guest_id, room_id))
       THEN /\ Deliver(<<ErrorTo(sid, "Unauthorized")>>)
            /\ UNCHANGED <<video_state, pending_requests>>
       ELSE LET existing == get_video_state(room_id)
                new_state == PlaybackState(
                    IF existing # {} THEN TheState(existing).current_video_id ELSE NoVideo,
                    FALSE, timestamp, guest_id)
                auto == AutoDismiss(room_id, "pause")
            IN  IF existing # {} /\ now - TheState(existing).last_updated < 2
                THEN /\ Deliver(<<>>)
                     /\ UNCHANGED <<video_state, pending_requests>>
                ELSE /\ video_state' = set_video_state(room_id, new_state)
                     /\ pending_requests' = auto.pending
                     /\ Deliver(<<ToRoom(room_id, "video_state", new_state)>> \o auto.events)
    /\ UNCHANGED <<room_connections, next_request_id, now>>

video_pause(sid, room_id, guest_id, timestamp) ==
    /\ call' = [op |-> "video:pause", sid |-> sid, room_id |-> room_id,
                guest_id |-> guest_id, timestamp |-> timestamp]
    /\ IF room_id = Missing
       THEN /\ Deliver(<<ErrorTo(sid, "Missing room_id")>>)
            /\ UNCHANGED <<video_state, pending_requests>>
       ELSE IF ~is_admin_or_mod(get_user_role(guest_id, room_id))
       THEN /\ Deliver(<<ErrorTo(sid, "Unauthorized")>>)
            /\ UNCHANGED <<video_state, pending_requests>>
       ELSE LET existing == get_video_state(room_id)
                new_state == PlaybackState(
                    IF existing # {} THEN TheState(existing).current_video_id ELSE NoVideo,
                    FALSE, timestamp, guest_id)
                auto == AutoDismiss(room_id, "pause")
            IN  /\ video_state' = set_video_state(room_id, new_state)
                /\ pending_requests' = auto.pending
                /\ Deliver(<<ToRoom(room_id, "video_state", new_state)>> \o auto.events)
    /\ UNCHANGED <<room_connections, next_request_id, now>>

\* Mutant: video:seek without the role check.
video_seek_unchecked(sid, room_id, guest_id, timestamp) ==
    /\ call' = [op |-> "video:seek", sid |-> sid, room_id |-> room_id,
                guest_id |-> guest_id, timestamp |-> timestamp]
    /\ IF room_id = Missing
       THEN /\ Deliver(<<ErrorTo(sid, "Missing room_id")>>)
            /\ UNCHANGED <<video_state, pending_requests>>
       ELSE LET existing == get_video_state(room_id)
                was_playing == IF existing # {} THEN TheState(existing).is_playing ELSE FALSE
                new_state == PlaybackState(
                    IF existing # {} THEN TheState(existing).current_video_id ELSE NoVideo,
                    was_playing, timestamp, guest_id)
                auto == AutoDismiss(room_id, "rewind")
            IN  /\ video_state' = set_video_state(room_id, new_state)
                /\ pending_requests' = auto.pending
                /\ Deliver(<<ToRoom(room_id, "video_state", new_state)>> \o auto.events)
    /\ UNCHANGED <<room_connections, next_request_id, now>>

video_seek(sid, room_id, guest_id, timestamp) ==
    /\ call' = [op |-> "video:seek", sid |-> sid, room_id |-> room_id,
                guest_id |-> guest_id, timestamp |-> timestamp]
    /\ IF room_id = Missing
       THEN /\ Deliver(<<ErrorTo(sid, "Missing room_id")>>)
            /\ UNCHANGED <<video_state, pending_requests>>
       ELSE IF ~is_admin_or_mod(get_user_role(guest_id, room_id))
       THEN /\ Deliver(<<ErrorTo(sid, "Unauthorized")>>)
            /\ UNCHANGED <<video_state, pending_requests>>
       ELSE LET existing == get_video_state(room_id)
                was_playing == IF existing # {} THEN TheState(existing).is_playing ELSE FALSE
                new_state == PlaybackState(
                    IF existing # {} THEN TheState(existing).current_video_id ELSE NoVideo,
                    was_playing, timestamp, guest_id)
                auto == AutoDismiss(room_id, "rewind")
            IN  /\ video_state' = set_video_state(room_id, new_state)
                /\ pending_requests' = auto.pending
                /\ Deliver(<<ToRoom(room_id, "video_state", new_state)>> \o auto.events)
    /\ UNCHANGED <<room_connections, next_request_id, now>>

video_switch(sid, room_id, guest_id, video_id) ==
    /\ call' = [op |-> "video:switch", sid |-> sid, room_id |-> room_id,
                guest_id |-> guest_id, video_id |-> video_id]
    /\ IF room_id = Missing \/ video_id = Missing
       THEN /\ Deliver(<<ErrorTo(sid, "Missing room_id or video_id")>>)
            /\ UNCHANGED video_state
       ELSE IF ~is_admin_or_mod(get_user_role(guest_id, room_id))
       THEN /\ Deliver(<<ErrorTo(sid, "Unauthorized")>>)
            /\ UNCHANGED video_state
       ELSE LET new_state == PlaybackState(video_id, FALSE, 0, guest_id)
            IN  /\ video_state' = set_video_state(room_id, new_state)
                /\ Deliver(<<ToRoom(room_id, "video_state", new_state),
                             ToRoom(room_id, "video_switched", [video_id |-> video_id])>>)
    /\ UNCHANGED <<room_connections, pending_requests, next_request_id, now>>

----------------------------------------------------------------------------
(* Viewer requests *)

\* The ids among 1..upto of the pending requests older than RequestMaxAge, in
\* insertion order.
RECURSIVE Expired(_)
Expired(upto) ==
    IF upto = 0 THEN <<>>
    ELSE IF upto \in DOMAIN pending_requests
            /\ now - pending_requests[upto].timestamp > RequestMaxAge
         THEN Append(Expired(upto - 1), upto) ELSE Expired(upto - 1)

request_pause(sid, room_id, guest_id) ==
    /\ next_request_id <= MaxRequests
    /\ LET request_id == next_request_id
           request == [id |-> request_id, type |-> "pause", guest_id |-> guest_id,
                       room_id |-> room_id, timestamp |-> now]
       IN  /\ call' = [op |-> "request:pause", sid |-> sid, room_id |-> room_id,
                       guest_id |-> guest_id, request_id |-> request_id]
           /\ pending_requests' =
                [k \in DOMAIN pending_requests \cup {request_id} |->
                    IF k = request_id THEN request ELSE pending_requests[k]]
           /\ next_request_id' = next_request_id + 1
           /\ Deliver(<<ToRoom(room_id, "viewer_request", request),
                        ToSid(sid, "request_sent",
                              [request_id |-> request_id, type |-> "pause"])>>)
    /\ UNCHANGED <<room_connections, video_state, now>>

request_rewind(sid, room_id, guest_id, seconds) ==
    /\ next_request_id <= MaxRequests
    /\ LET request_id == next_request_id
           request == [id |-> request_id, type |-> "rewind", guest_id |-> guest_id,
                       room_id |-> room_id, seconds |-> seconds, timestamp |-> now]
       IN  /\ call' = [op |-> "request:rewind", sid |-> sid, room_id |-> room_id,
                       guest_id |-> guest_id, request_id |-> request_id]
           /\ pending_requests' =
                [k \in DOMAIN pending_requests \cup {request_id} |->
                    IF k = request_id THEN request ELSE pending_requests[k]]
           /\ next_request_id' = next_request_id + 1
           /\ Deliver(<<ToRoom(room_id, "viewer_request", request),
                        ToSid(sid, "request_sent",
                              [request_id |-> request_id, type |-> "rewind"])>>)
    /\ UNCHANGED <<room_connections, video_state, now>>

\* request:message: a notification and a chat line for the room; nothing is added to
\* pending_requests and nothing is sent back to the requester.
request_message(sid, room_id, guest_id, message) ==
    /\ call' = [op |-> "request:message", sid |-> sid, room_id |-> room_id,
                guest_id |-> guest_id, message |-> message]
    /\ Deliver(<<ToRoom(room_id, "viewer_request",
                        [type |-> "quick_message", guest_id |-> guest_id,
                         message |-> message, timestamp |-> now]),
                 ToRoom(room_id, "chat_message",
                        [guest_id |-> guest_id, message |-> <<"quick", message>>,
                         timestamp |-> now])>>)
    /\ UNCHANGED <<room_connections, pending_requests, next_request_id, video_state, now>>

\* Mutant: approve:request rewinding below position 0.
approve_request_unfloored(sid, request_id, room_id, guest_id) ==
    /\ call' = [op |-> "approve:request", sid |-> sid, room_id |-> room_id,
                guest_id |-> guest_id, request_id |-> request_id]
    /\ IF request_id \notin DOMAIN pending_requests
       THEN /\ Deliver(<<ErrorTo(sid, "Request not found")>>)
            /\ UNCHANGED <<video_state, pending_requests>>
       ELSE IF ~is_admin_or_mod(get_user_role(guest_id, room_id))
       THEN /\ Deliver(<<ErrorTo(sid, "Unauthorized")>>)
            /\ UNCHANGED <<video_state, pending_requests>>
       ELSE LET request == pending_requests[request_id]
                state == get_video_state(room_id)
            IN  IF state = {}
                THEN \* state is None: state.get raises AttributeError, caught by the
                     \* handler's except clause; nothing was emitted or removed
                     /\ Deliver(<<>>)
                     /\ UNCHANGED <<video_state, pending_requests>>
                ELSE LET cur == TheState(state)
                         new_state ==
                            IF request.type = "pause"
                            THEN PlaybackState(cur.current_video_id, FALSE,
                                               cur.current_timestamp, guest_id)
                            ELSE PlaybackState(cur.current_video_id, cur.is_playing,
                                               cur.current_timestamp - request.seconds,
                                               guest_id)
                     IN  /\ video_state' = set_video_state(room_id, new_state)
                         /\ pending_requests' = Without(pending_requests, {request_id})
                         /\ Deliver(<<ToRoom(room_id, "video_state", new_state),
                                      ToRoom(room_id, "request_approved",
                                             [request_id |-> request_id,
                                              type |-> request.type])>>)
    /\ UNCHANGED <<room_connections, next_request_id, now>>

approve_request(sid, request_id, room_id, guest_id) ==
    /\ call' = [op |-> "approve:request", sid |-> sid, room_id |-> room_id,
                guest_id |-> guest_id, request_id |-> request_id]
    /\ IF request_id \notin DOMAIN pending_requests
       THEN /\ Deliver(<<ErrorTo(sid, "Request not found")>>)
            /\ UNCHANGED <<video_state, pending_requests>>
       ELSE IF ~is_admin_or_mod(get_user_role(guest_id, room_id))
       THEN /\ Deliver(<<ErrorTo(sid, "Unauthorized")>>)
            /\ UNCHANGED <<video_state, pending_requests>>
       ELSE LET request == pending_requests[request_id]
                state == get_video_state(room_id)
            IN  IF state = {}
                THEN \* state is None: state.get raises AttributeError, caught by the
                     \* handler's except clause; nothing was emitted or removed
                     /\ Deliver(<<>>)
                     /\ UNCHANGED <<video_state, pending_requests>>
                ELSE LET cur == TheState(state)
                         new_state ==
                            IF request.type = "pause"
                            THEN PlaybackState(cur.current_video_id, FALSE,
                                               cur.current_timestamp, guest_id)
                            ELSE PlaybackState(cur.current_video_id, cur.is_playing,
                                               Max(0, cur.current_timestamp - request.seconds),
                                               guest_id)
                     IN  /\ video_state' = set_video_state(room_id, new_state)
                         /\ pending_requests' = Without(pending_requests, {request_id})
                         /\ Deliver(<<ToRoom(room_id, "video_state", new_state),
                                      ToRoom(room_id, "request_approved",
                                             [request_id |-> request_id,
                                              type |-> request.type])>>)
    /\ UNCHANGED <<room_connections, next_request_id, now>>

\* Mutant: dismiss:request without the role check.
dismiss_request_unchecked(sid, request_id, room_id, guest_id) ==
    /\ call' = [op |-> "dismiss:request", sid |-> sid, room_id |-> room_id,
                guest_id |-> guest_id, request_id |-> request_id]
    /\ IF request_id \notin DOMAIN pending_requests
       THEN /\ Deliver(<<>>)
            /\ UNCHANGED pending_requests
       ELSE IF FALSE
       THEN /\ Deliver(<<ErrorTo(sid, "Unauthorized")>>)
            /\ UNCHANGED pending_requests
       ELSE /\ pending_requests' = Without(pending_requests, {request_id})
            /\ Deliver(<<ToRoom(room_id, "request_dismissed", [request_id |-> request_id])>>)
    /\ UNCHANGED <<room_connections, next_request_id, video_state, now>>

dismiss_request(sid, request_id, room_id, guest_id) ==
    /\ call' = [op |-> "dismiss:request", sid |-> sid, room_id |-> room_id,
                guest_id |-> guest_id, request_id |-> request_id]
    /\ IF request_id \notin DOMAIN pending_requests
       THEN /\ Deliver(<<>>)
            /\ UNCHANGED pending_requests
       ELSE IF ~is_admin_or_mod(get_user_role(guest_id, room_id))
       THEN /\ Deliver(<<ErrorTo(sid, "Unauthorized")>>)
            /\ UNCHANGED pending_requests
       ELSE /\ pending_requests' = Without(pending_requests, {request_id})
            /\ Deliver(<<ToRoom(room_id, "request_dismissed", [request_id |-> request_id])>>)
    /\ UNCHANGED <<room_connections, next_request_id, video_state, now>>

----------------------------------------------------------------------------
(* The clock *)

\* Mutant: a sweep that expires nothing.
cleanup_old_requests_idle ==
    /\ now >= sweep_at
    /\ call' = [op |-> "cleanup", at |-> now]
    /\ sweep_at' = now + SweepInterval
    /\ Emit(<<>>)
    /\ UNCHANGED <<room_connections, pending_requests, next_request_id, video_state, now,
                   chat_vars, db_vars, registry_vars, handlers, sweep_expired>>

\* One round of cleanup_old_requests' loop, when its sleep has ended: every request
\* older than RequestMaxAge is deleted and request_dismissed is sent to its room; the
\* task then sleeps again.
cleanup_old_requests ==
    /\ now >= sweep_at
    /\ LET expired == Expired(next_request_id - 1)
       IN  /\ call' = [op |-> "cleanup", at |-> now]
           /\ pending_requests' = Without(pending_requests, SeqToSet(expired))
           /\ Emit([i \in 1..Len(expired) |->
                       ToRoom(pending_requests[expired[i]].room_id, "request_dismissed",
                              [request_id |-> expired[i]])])
    /\ sweep_at' = now + SweepInterval
    /\ UNCHANGED <<room_connections, next_request_id, video_state, now,
                   chat_vars, db_vars, registry_vars, handlers, sweep_expired>>

\* Mutant: a KeyError that ends the task.
SweepSegmentStopping(todo) ==
    IF todo = <<>>
    THEN /\ call' = [op |-> "sweep:sleep", at |-> now]
         /\ sweep_expired' = {}
         /\ sweep_at' = now + SweepInterval
         /\ Emit(<<>>)
         /\ UNCHANGED pending_requests
    ELSE IF Head(todo) \notin DOMAIN pending_requests
    THEN /\ call' = [op |-> "sweep:error", at |-> now, request_id |-> Head(todo),
                     left |-> Tail(todo)]
         /\ Emit(<<>>)
         /\ UNCHANGED <<pending_requests, sweep_expired, sweep_at>>
    ELSE /\ call' = [op |-> "sweep:dismiss", at |-> now, request_id |-> Head(todo)]
         /\ pending_requests' = Without(pending_requests, {Head(todo)})
         /\ sweep_expired' = {Tail(todo)}
         /\ Emit(<<ToRoom(pending_requests[Head(todo)].room_id, "request_dismissed",
                          [request_id |-> Head(todo)])>>)
         /\ UNCHANGED sweep_at

\* cleanup_old_requests between two awaits, with todo the rest of its expired list:
\* the loop is over and the task sleeps again; or pending_requests[req_id] raises
\* KeyError, which the except clause inside the while loop logs before the task
\* sleeps again; or the request is deleted and the task is suspended in the emit.
SweepSegment(todo) ==
    IF todo = <<>>
    THEN /\ call' = [op |-> "sweep:sleep", at |-> now]
         /\ sweep_expired' = {}
         /\ sweep_at' = now + SweepInterval
         /\ Emit(<<>>)
         /\ UNCHANGED pending_requests
    ELSE IF Head(todo) \notin DOMAIN pending_requests
    THEN /\ call' = [op |-> "sweep:error", at |-> now, request_id |-> Head(todo),
                     left |-> Tail(todo)]
         /\ sweep_expired' = {}
         /\ sweep_at' = now + SweepInterval
         /\ Emit(<<>>)
         /\ UNCHANGED pending_requests
    ELSE /\ call' = [op |-> "sweep:dismiss", at |-> now, request_id |-> Head(todo)]
         /\ pending_requests' = Without(pending_requests, {Head(todo)})
         /\ sweep_expired' = {Tail(todo)}
         /\ Emit(<<ToRoom(pending_requests[Head(todo)].room_id, "request_dismissed",
                          [request_id |-> Head(todo)])>>)
         /\ UNCHANGED sweep_at

\* cleanup_old_requests' sleep has ended: expired is computed and the loop over it
\* runs up to its first emit.
sweep_wake ==
    /\ now >= sweep_at
    /\ sweep_expired = {}
    /\ SweepSegment(Expired(next_request_id - 1))
    /\ UNCHANGED <<room_connections, next_request_id, video_state, now,
                   chat_vars, db_vars, registry_vars, handlers>>

\* The emit returns and the loop over expired goes on.
sweep_resume ==
    /\ sweep_expired # {}
    /\ SweepSegment(TheState(sweep_expired))
    /\ UNCHANGED <<room_connections, next_request_id, video_state, now,
                   chat_vars, db_vars, registry_vars, handlers>>

\* Time passes while cleanup_old_requests sleeps.
\* video:play, video:pause or video:seek arrives in task h: the checks, up to the
\* await of get_video_state.
control_begin(h, op, sid, room_id, guest_id, timestamp) ==
    /\ handlers[h] = Idle
    /\ call' = [op |-> op, task |-> h, sid |-> sid, room_id |-> room_id,
                guest_id |-> guest_id, timestamp |-> timestamp]
    /\ IF room_id = Missing
       THEN /\ Emit(<<ErrorTo(sid, "Missing room_id")>>)
            /\ UNCHANGED handlers
       ELSE IF ~is_admin_or_mod(get_user_role(guest_id, room_id))
       THEN /\ Emit(<<ErrorTo(sid, "Unauthorized")>>)
            /\ UNCHANGED handlers
       ELSE /\ Emit(<<>>)
            /\ handlers' = [handlers EXCEPT ![h] =
                  [pc |-> "read", op |-> op, sid |-> sid, room_id |-> room_id,
                   guest_id |-> guest_id, timestamp |-> timestamp]]
    /\ UNCHANGED <<room_connections, pending_requests, next_request_id, video_state, now,
                   sweep_at, sweep_expired, chat_vars, db_vars, registry_vars>>

\* get_video_state returns in task h, and the handler builds new_state from it up to
\* the await of set_video_state.
control_read(h) ==
    LET t == handlers[h]
        existing == get_video_state(t.room_id)
        video == IF existing # {} THEN TheState(existing).current_video_id ELSE NoVideo
        playing == CASE t.op = "video:play" -> TRUE
                     [] t.op = "video:pause" -> FALSE
                     [] OTHER -> IF existing # {} THEN TheState(existing).is_playing
                                 ELSE FALSE
    IN  /\ t.pc = "read"
        /\ call' = [op |-> "control:read", task |-> h, room_id |-> t.room_id]
        /\ handlers' = [handlers EXCEPT ![h] =
              [pc |-> "write", op |-> t.op, sid |-> t.sid, room_id |-> t.room_id,
               guest_id |-> t.guest_id, timestamp |-> t.timestamp,
               existing |-> existing,
               new_state |-> PlaybackState(video, playing, t.timestamp, t.guest_id)]]
        /\ Emit(<<>>)
        /\ UNCHANGED <<room_connections, pending_requests, next_request_id, video_state,
                       now, sweep_at, sweep_expired, chat_vars, db_vars,
                       registry_vars>>

\* set_video_state stores task h's new_state; the task awaits the store's answer.
control_write(h) ==
    LET t == handlers[h]
    IN  /\ t.pc = "write"
        /\ call' = [op |-> "control:write", task |-> h, room_id |-> t.room_id,
                    request |-> t.op, existing |-> t.existing]
        /\ video_state' = set_video_state(t.room_id, t.new_state)
        /\ handlers' = [handlers EXCEPT ![h] = [t EXCEPT !.pc = "emit"]]
        /\ Emit(<<>>)
        /\ UNCHANGED <<room_connections, pending_requests, next_request_id, now, sweep_at,
                       sweep_expired,
                       chat_vars, db_vars, registry_vars>>

\* Task h resumes and broadcasts its new_state to the room; video:play ends here.
control_emit(h) ==
    LET t == handlers[h]
    IN  /\ t.pc = "emit"
        /\ call' = [op |-> "control:emit", task |-> h, room_id |-> t.room_id]
        /\ handlers' = [handlers EXCEPT ![h] =
                           IF t.op = "video:play" THEN Idle ELSE [t EXCEPT !.pc = "dismiss"]]
        /\ Emit(<<ToRoom(t.room_id, "video_state", t.new_state)>>)
        /\ UNCHANGED <<room_connections, pending_requests, next_request_id, video_state,
                       now, sweep_at, sweep_expired, chat_vars, db_vars,
                       registry_vars>>

\* The end of video:pause and video:seek in task h: the auto-dismissal.
control_dismiss(h) ==
    LET t == handlers[h]
        auto == AutoDismiss(t.room_id, IF t.op = "video:pause" THEN "pause" ELSE "rewind")
    IN  /\ t.pc = "dismiss"
        /\ call' = [op |-> "control:dismiss", task |-> h, room_id |-> t.room_id]
        /\ pending_requests' = auto.pending
        /\ handlers' = [handlers EXCEPT ![h] = Idle]
        /\ Emit(auto.events)
        /\ UNCHANGED <<room_connections, next_request_id, video_state, now, sweep_at,
                       sweep_expired,
                       chat_vars, db_vars, registry_vars>>

Elapse ==
    /\ now < sweep_at
    /\ now < MaxSweepTime \/ DOMAIN pending_requests # {}
    /\ now' = now + TickSeconds
    /\ UNCHANGED <<room_connections, pending_requests, next_request_id, video_state,
                   outbox, last_video_state, call, before>>
    /\ UNCHANGED <<chat_vars, db_vars, task_vars, registry_vars>>

Tick ==
    /\ now < MaxTime
    /\ now' = now + 1
    /\ UNCHANGED <<room_connections, pending_requests, next_request_id, video_state,
                   outbox, last_video_state, call, before>>
    /\ UNCHANGED <<chat_vars, db_vars, task_vars, registry_vars>>

----------------------------------------------------------------------------
(* Spec: the handlers of one room, run one at a time. *)

Control ==
    \/ \E g \in Guests, t \in Positions : \E r \in RoomInputs(t = 0) :
          video_play(SidOf(g), r, g, t)
    \/ \E g \in Guests, t \in Positions : \E r \in RoomInputs(t = 0) :
          video_pause(SidOf(g), r, g, t)
    \/ \E g \in Guests, t \in Positions : \E r \in RoomInputs(t = 0) :
          video_seek(SidOf(g), r, g, t)
    \/ \E g \in Guests, v \in Videos \cup {Missing} : \E r \in RoomInputs(v = "v1") :
          video_switch(SidOf(g), r, g, v)

Next ==
    \/ \E g \in Guests, r \in Rooms : \E role \in JoinRoles(g) :
          join_room(SidOf(g), r, g, role, DefaultName)
    \/ Control
    \/ \E g \in Requesters, r \in Rooms : request_pause(SidOf(g), r, g)
    \/ \E g \in Requesters, r \in Rooms, s \in RewindSeconds :
          request_rewind(SidOf(g), r, g, s)
    \/ \E g \in Guests, r \in Rooms, q \in 1..MaxRequests : approve_request(SidOf(g), q, r, g)
    \/ \E g \in Guests, r \in Rooms, q \in 1..MaxRequests : dismiss_request(SidOf(g), q, r, g)

Spec == Init /\ [][Next]_vars

(* SpecClock: the control handlers of one room with the clock running. *)

NextClock ==
    \/ \E g \in Guests, r \in Rooms : \E role \in ClockJoinRoles(g) :
          join_room(SidOf(g), r, g, role, DefaultName)
    \/ Control
    \/ Tick

SpecClock == Init /\ [][NextClock]_vars

(* SpecApprove: playback, pause requests and their approval with the clock
   running. *)

NextApprove ==
    \/ \E g \in Guests, r \in Rooms : \E role \in JoinRoles(g) :
          join_room(SidOf(g), r, g, role, DefaultName)
    \/ \E g \in Guests, t \in Positions, r \in Rooms : video_play(SidOf(g), r, g, t)
    \/ \E g \in Requesters, r \in Rooms : request_pause(SidOf(g), r, g)
    \/ \E g \in Guests, r \in Rooms, q \in 1..MaxRequests : approve_request(SidOf(g), q, r, g)
    \/ Tick

SpecApprove == Init /\ [][NextApprove]_vars

(* SpecDismiss: requests naming two rooms, and the pause and seek commands of
   room r1 that dismiss them. *)

NextDismiss ==
    \/ \E g \in Guests, r \in Rooms : \E role \in JoinRoles(g) :
          join_room(SidOf(g), r, g, role, DefaultName)
    \/ \E g \in Guests, r \in Rooms : video_pause(SidOf(g), r, g, 0)
    \/ \E g \in Guests, r \in Rooms : video_seek(SidOf(g), r, g, 20)
    \/ \E g \in Requesters, r \in RequestRooms : request_pause(SidOf(g), r, g)
    \/ \E g \in Requesters, r \in RequestRooms, s \in RewindSeconds :
          request_rewind(SidOf(g), r, g, s)

SpecDismiss == Init /\ [][NextDismiss]_vars

\* SpecSweep: viewers file requests, a moderator dismisses some, time passes and the
\* background sweep runs whenever its sleep has ended. The event loop keeps running:
\* the clock does not stop, and the sweep task is scheduled once it is ready.
NextSweep ==
    \/ \E r \in Rooms : join_room(SidOf("g1"), r, "g1", "moderator", DefaultName)
    \/ \E r \in RequestRooms : request_pause(SidOf("g2"), r, "g2")
    \/ \E r \in Rooms, q \in 1..MaxRequests : dismiss_request(SidOf("g1"), q, r, "g1")
    \/ cleanup_old_requests
    \/ Elapse

SpecSweep == Init /\ [][NextSweep]_vars /\ WF_vars(Elapse) /\ WF_vars(cleanup_old_requests)

\* approve:request arrives in task h: the checks, up to the await of get_video_state.
approve_begin(h, sid, request_id, room_id, guest_id) ==
    /\ handlers[h] = Idle
    /\ call' = [op |-> "approve:begin", task |-> h, sid |-> sid, room_id |-> room_id,
                guest_id |-> guest_id, request_id |-> request_id]
    /\ IF request_id \notin DOMAIN pending_requests
       THEN /\ Emit(<<ErrorTo(sid, "Request not found")>>)
            /\ UNCHANGED handlers
       ELSE IF ~is_admin_or_mod(get_user_role(guest_id, room_id))
       THEN /\ Emit(<<ErrorTo(sid, "Unauthorized")>>)
            /\ UNCHANGED handlers
       ELSE /\ Emit(<<>>)
            /\ handlers' = [handlers EXCEPT ![h] =
                  [pc |-> "approve_read", sid |-> sid, room_id |-> room_id,
                   guest_id |-> guest_id, request_id |-> request_id,
                   request |-> pending_requests[request_id]]]
    /\ UNCHANGED <<room_connections, pending_requests, next_request_id, video_state, now,
                   sweep_at, sweep_expired, chat_vars, db_vars, registry_vars>>

\* get_video_state returns in task h and the handler builds new_state up to the await
\* of set_video_state; with no stored state, state.get raises AttributeError and the
\* handler ends in its except clause.
approve_read(h) ==
    LET t == handlers[h]
        state == get_video_state(t.room_id)
        cur == TheState(state)
        new_state ==
            IF t.request.type = "pause"
            THEN PlaybackState(cur.current_video_id, FALSE, cur.current_timestamp,
                               t.guest_id)
            ELSE PlaybackState(cur.current_video_id, cur.is_playing,
                               Max(0, cur.current_timestamp - t.request.seconds),
                               t.guest_id)
    IN  /\ t.pc = "approve_read"
        /\ call' = [op |-> "approve:read", task |-> h, room_id |-> t.room_id,
                    request_id |-> t.request_id]
        /\ handlers' = [handlers EXCEPT ![h] =
              IF state = {} THEN Idle
              ELSE [pc |-> "approve_write", sid |-> t.sid, room_id |-> t.room_id,
                    guest_id |-> t.guest_id, request_id |-> t.request_id,
                    request |-> t.request, new_state |-> new_state]]
        /\ Emit(<<>>)
        /\ UNCHANGED <<room_connections, pending_requests, next_request_id, video_state,
                       now, sweep_at, sweep_expired, chat_vars, db_vars,
                       registry_vars>>

\* set_video_state stores task h's new_state; the task awaits the store's answer.
approve_write(h) ==
    LET t == handlers[h]
    IN  /\ t.pc = "approve_write"
        /\ call' = [op |-> "approve:write", task |-> h, room_id |-> t.room_id,
                    request_id |-> t.request_id]
        /\ video_state' = set_video_state(t.room_id, t.new_state)
        /\ handlers' = [handlers EXCEPT ![h] = [t EXCEPT !.pc = "approve_emit"]]
        /\ Emit(<<>>)
        /\ UNCHANGED <<room_connections, pending_requests, next_request_id, now, sweep_at,
                       sweep_expired, chat_vars, db_vars, registry_vars>>

\* Task h resumes and broadcasts its new_state to the room.
approve_emit(h) ==
    LET t == handlers[h]
    IN  /\ t.pc = "approve_emit"
        /\ call' = [op |-> "approve:emit", task |-> h, room_id |-> t.room_id,
                    request_id |-> t.request_id]
        /\ handlers' = [handlers EXCEPT ![h] = [t EXCEPT !.pc = "approve_delete"]]
        /\ Emit(<<ToRoom(t.room_id, "video_state", t.new_state)>>)
        /\ UNCHANGED <<room_connections, pending_requests, next_request_id, video_state,
                       now, sweep_at, sweep_expired, chat_vars, db_vars,
                       registry_vars>>

\* The emit returns: del pending_requests[request_id] and the request_approved
\* broadcast; when the request is gone the del raises KeyError and the handler ends
\* in its except clause.
approve_delete(h) ==
    LET t == handlers[h]
    IN  /\ t.pc = "approve_delete"
        /\ call' = [op |-> "approve:delete", task |-> h, room_id |-> t.room_id,
                    request_id |-> t.request_id]
        /\ handlers' = [handlers EXCEPT ![h] = Idle]
        /\ IF t.request_id \in DOMAIN pending_requests
           THEN /\ pending_requests' = Without(pending_requests, {t.request_id})
                /\ Emit(<<ToRoom(t.room_id, "request_approved",
                                 [request_id |-> t.request_id,
                                  type |-> t.request.type])>>)
           ELSE /\ Emit(<<>>)
                /\ UNCHANGED pending_requests
        /\ UNCHANGED <<room_connections, next_request_id, video_state, now, sweep_at,
                       sweep_expired, chat_vars, db_vars, registry_vars>>

ApprovePlayAt == 20

\* SpecApproveTwice: the moderator plays from position 10.0 s, a viewer asks for
\* rewinds, and the moderator's approvals are handled by two tasks that may overlap.
NextApproveTwice ==
    \/ join_room(SidOf("g1"), "r1", "g1", "moderator", DefaultName)
    \/ video_play(SidOf("g1"), "r1", "g1", ApprovePlayAt)
    \/ \E s \in RewindSeconds : request_rewind(SidOf("g2"), "r1", "g2", s)
    \/ \E h \in Handlers, q \in 1..MaxRequests :
          approve_begin(h, SidOf("g1"), q, "r1", "g1")
    \/ \E h \in Handlers : approve_read(h)
    \/ \E h \in Handlers : approve_write(h)
    \/ \E h \in Handlers : approve_emit(h)
    \/ \E h \in Handlers : approve_delete(h)

SpecApproveTwice == Init /\ [][NextApproveTwice]_vars

Backlog == 3

\* Moderator g1 has announced itself in room r1 and viewer g2 has filed Backlog
\* pause requests for r1 at time 0.
BacklogInit ==
    LET entry == [sid |-> SidOf("g1"), role |-> "moderator", username |-> DefaultName]
        registry == [r \in RegistryRooms |->
                        IF r = "r1" THEN [g \in {"g1"} |-> entry] ELSE <<>>]
        filed == [q \in 1..Backlog |->
                     [id |-> q, type |-> "pause", guest_id |-> "g2", room_id |-> "r1",
                      timestamp |-> 0]]
    IN  /\ room_connections = registry
        /\ pending_requests = filed
        /\ next_request_id = Backlog + 1
        /\ video_state = [r \in Rooms |-> {}]
        /\ now = 0
        /\ outbox = <<>>
        /\ last_video_state = [r \in Rooms |-> {}]
        /\ call = [op |-> "init"]
        /\ before = [video_state |-> [r \in Rooms |-> {}], pending_requests |-> filed,
                     room_connections |-> registry]
        /\ room_order = <<"r1">>
        /\ connections = [c \in Connections |-> Open]
        /\ last_join = [k \in RegistryRooms \X Guests |->
                           IF k = <<"r1", "g1">> THEN {entry} ELSE {}]
        /\ sweep_at = SweepInterval
        /\ sweep_expired = {}
        /\ handlers = [h \in Handlers |-> Idle]

InitBacklog == BacklogInit /\ ChatInit /\ DbInit

\* SpecBacklog: the sweep works through the backlog, suspended in each of its emits,
\* while the moderator plays, approves and dismisses. The event loop keeps running:
\* the clock does not stop, and the sweep task is scheduled whenever it is ready.
NextBacklog ==
    \/ video_play(SidOf("g1"), "r1", "g1", 0)
    \/ \E q \in 1..Backlog : approve_request(SidOf("g1"), q, "r1", "g1")
    \/ \E q \in 1..Backlog : dismiss_request(SidOf("g1"), q, "r1", "g1")
    \/ sweep_wake
    \/ sweep_resume
    \/ Elapse

SpecBacklog ==
    /\ InitBacklog
    /\ [][NextBacklog]_vars
    /\ WF_vars(Elapse) /\ WF_vars(sweep_wake) /\ WF_vars(sweep_resume)

QuickMessages == {"louder", "again"}

\* SpecSubmit: a viewer submits pause, rewind and quick-message requests, and a
\* moderator dismisses some.
NextSubmit ==
    \/ \E r \in Rooms : join_room(SidOf("g1"), r, "g1", "moderator", DefaultName)
    \/ \E r \in RequestRooms : request_pause(SidOf("g2"), r, "g2")
    \/ \E r \in RequestRooms, sec \in RewindSeconds : request_rewind(SidOf("g2"), r, "g2", sec)
    \/ \E r \in RequestRooms, t \in QuickMessages : request_message(SidOf("g2"), r, "g2", t)
    \/ \E r \in Rooms, q \in 1..MaxRequests : dismiss_request(SidOf("g1"), q, r, "g1")

SpecSubmit == Init /\ [][NextSubmit]_vars

OverlapPositions == {0, 20}

\* SpecOverlap: two tasks run control handlers of room r1 that may overlap at their
\* awaits.
NextOverlap ==
    \/ \E r \in Rooms : join_room(SidOf("g1"), r, "g1", "moderator", DefaultName)
    \/ \E h \in Handlers, op \in {"video:play", "video:pause", "video:seek"} :
          \E g \in Guests, t \in OverlapPositions : \E r \in RoomInputs(g = "g1" /\ t = 0) :
             control_begin(h, op, SidOf(g), r, g, t)
    \/ \E h \in Handlers : control_read(h)
    \/ \E h \in Handlers : control_write(h)
    \/ \E h \in Handlers : control_emit(h)
    \/ \E h \in Handlers : control_dismiss(h)

SpecOverlap == Init /\ [][NextOverlap]_vars

\* What each connection announces: the rooms it joins, and its role and username.
JoinRooms(sid) == IF sid = "s2" THEN {"r3", Missing} ELSE {"r1", "r2"}
JoinArgs(g) ==
    IF g = "g1" THEN {[role |-> "moderator", username |-> "ann"]}
    ELSE {[role |-> "viewer", username |-> "bob"],
          [role |-> "moderator", username |-> DefaultName]}

\* SpecPresence: clients announce themselves, leave and disconnect; a connection
\* sends nothing once its disconnect handler has started.
NextPresence ==
    \/ \E sid \in Connections : \E r \in JoinRooms(sid), a \in JoinArgs(GuestOf(sid)) :
          /\ connections[sid] = Open
          /\ join_room(sid, r, GuestOf(sid), a.role, a.username)
    \/ \E sid \in Connections : \E r \in JoinRooms(sid) :
          /\ connections[sid] = Open
          /\ leave_room(sid, r, GuestOf(sid))
    \/ \E sid \in Connections : disconnect(sid)
    \/ \E sid \in Connections : disconnect_resume(sid)

SpecPresence == Init /\ [][NextPresence]_vars

----------------------------------------------------------------------------
(* The chat store: RedisChatService, with Redis connected *)

MAX_MESSAGES == 200

\* A log that earlier add_message calls left behind, n entries long.
StoredMessage(i) ==
    [id |-> StoredBase + i, user_id |-> "u1", username |-> "alice",
     message |-> "earlier", timestamp |-> 0, reply_to_id |-> NoId]
StoredLog(n) == [i \in 1..n |-> json_dumps(StoredMessage(i))]
StoredLengths == {0, MAX_MESSAGES - 1, MAX_MESSAGES}

ChatInitStored ==
    /\ chat_messages \in {[r \in Rooms |-> StoredLog(n)] : n \in StoredLengths}
    /\ chat_reactions = [r \in Rooms |-> [m \in MessageIds |-> EmptyHash]]
    /\ next_message_id = 1
    /\ chat_call = [op |-> "init"]
    /\ chat_prev = [op |-> "init"]

\* What is kept of a chat call once the next one is made: not the log it found.
Earlier(c) ==
    IF c.op = "add_message"
    THEN [op |-> c.op, room_id |-> c.room_id, message_id |-> c.message_id,
          user_id |-> c.user_id, username |-> c.username, message |-> c.message,
          timestamp |-> c.timestamp, existed |-> c.existed,
          found_len |-> Len(c.found), result |-> c.result]
    ELSE IF c.op = "get_messages"
    THEN [op |-> c.op, room_id |-> c.room_id, limit |-> c.limit]
    ELSE c

\* Mutant: add_message without the scan for a stored message of the same id.
add_message_unscanned(room_id, post, message_id) ==
    LET msg_id == IF message_id # NoId THEN message_id
                  ELSE GeneratedBase + next_message_id
        msg_timestamp == IF post.timestamp # NoTimestamp THEN post.timestamp ELSE now
        existing_messages == LRange(chat_messages[room_id], 0, -1)
        hits == {}
        message_obj == [id |-> msg_id, user_id |-> post.user_id,
                        username |-> post.username, message |-> post.message,
                        timestamp |-> msg_timestamp, reply_to_id |-> NoId]
        result == IF hits # {}
                  THEN json_loads(existing_messages[CHOOSE i \in hits :
                                                       \A j \in hits : i <= j])
                  ELSE message_obj
    IN  /\ message_id = NoId => next_message_id <= MaxGenerated
        /\ chat_messages' =
             IF hits # {} THEN chat_messages
             ELSE [chat_messages EXCEPT ![room_id] =
                      LRange(Append(@, json_dumps(message_obj)), -MAX_MESSAGES, -1)]
        /\ next_message_id' = IF message_id = NoId THEN next_message_id + 1
                              ELSE next_message_id
        /\ chat_prev' = Earlier(chat_call)
        /\ chat_call' = [op |-> "add_message", room_id |-> room_id,
                         message_id |-> message_id, user_id |-> post.user_id,
                         username |-> post.username, message |-> post.message,
                         timestamp |-> post.timestamp, existed |-> hits # {},
                         found |-> chat_messages[room_id], result |-> result]
        /\ UNCHANGED <<chat_reactions, socket_vars, db_vars>>

add_message(room_id, post, message_id) ==
    LET msg_id == IF message_id # NoId THEN message_id
                  ELSE GeneratedBase + next_message_id
        msg_timestamp == IF post.timestamp # NoTimestamp THEN post.timestamp ELSE now
        existing_messages == LRange(chat_messages[room_id], 0, -1)
        hits == {i \in 1..Len(existing_messages) :
                    json_loads(existing_messages[i]).id = msg_id}
        message_obj == [id |-> msg_id, user_id |-> post.user_id,
                        username |-> post.username, message |-> post.message,
                        timestamp |-> msg_timestamp, reply_to_id |-> NoId]
        result == IF hits # {}
                  THEN json_loads(existing_messages[CHOOSE i \in hits :
                                                       \A j \in hits : i <= j])
                  ELSE message_obj
    IN  /\ message_id = NoId => next_message_id <= MaxGenerated
        /\ chat_messages' =
             IF hits # {} THEN chat_messages
             ELSE [chat_messages EXCEPT ![room_id] =
                      LRange(Append(@, json_dumps(message_obj)), -MAX_MESSAGES, -1)]
        /\ next_message_id' = IF message_id = NoId THEN next_message_id + 1
                              ELSE next_message_id
        /\ chat_prev' = Earlier(chat_call)
        /\ chat_call' = [op |-> "add_message", room_id |-> room_id,
                         message_id |-> message_id, user_id |-> post.user_id,
                         username |-> post.username, message |-> post.message,
                         timestamp |-> post.timestamp, existed |-> hits # {},
                         found |-> chat_messages[room_id], result |-> result]
        /\ UNCHANGED <<chat_reactions, socket_vars, db_vars>>

get_messages(room_id, limit) ==
    LET messages_json == LRange(chat_messages[room_id], -limit, -1)
    IN  /\ chat_prev' = Earlier(chat_call)
        /\ chat_call' = [op |-> "get_messages", room_id |-> room_id, limit |-> limit,
                         found |-> chat_messages[room_id],
                         result |-> [i \in 1..Len(messages_json) |->
                                        json_loads(messages_json[i])]]
        /\ UNCHANGED <<chat_messages, chat_reactions, next_message_id, socket_vars, db_vars>>

get_reactions(room_id, message_id) ==
    [e \in DOMAIN chat_reactions[room_id][message_id] |->
        json_loads(chat_reactions[room_id][message_id][e])]

ReactionCall(op, room_id, message_id, emoji, user_id, result) ==
    [op |-> op, room_id |-> room_id, message_id |-> message_id, emoji |-> emoji,
     user_id |-> user_id, found |-> get_reactions(room_id, message_id),
     result |-> result]

add_reaction(room_id, message_id, emoji, user_id) ==
    LET key == chat_reactions[room_id][message_id]
        existing == hget(key, emoji)
        user_ids == IF existing # {} THEN json_loads(TheState(existing)) ELSE <<>>
        added == user_id \notin SeqToSet(user_ids)
    IN  /\ chat_reactions' =
             IF added
             THEN [chat_reactions EXCEPT ![room_id][message_id] =
                      hset(key, emoji, json_dumps(Append(user_ids, user_id)))]
             ELSE chat_reactions
        /\ chat_prev' = chat_call
        /\ chat_call' = ReactionCall("add_reaction", room_id, message_id, emoji,
                                     user_id, added)
        /\ UNCHANGED <<chat_messages, next_message_id, socket_vars, db_vars>>

\* list.remove(x): the list without the first occurrence of x.
ListRemove(list, x) ==
    LET at == CHOOSE i \in 1..Len(list) : list[i] = x /\ \A j \in 1..(i - 1) : list[j] # x
    IN  SubSeq(list, 1, at - 1) \o SubSeq(list, at + 1, Len(list))

\* Mutant: remove_reaction writing the emptied list back instead of deleting the field.
remove_reaction_keeping_key(room_id, message_id, emoji, user_id) ==
    LET key == chat_reactions[room_id][message_id]
        existing == hget(key, emoji)
        user_ids == IF existing # {} THEN json_loads(TheState(existing)) ELSE <<>>
        removed == existing # {} /\ user_id \in SeqToSet(user_ids)
    IN  /\ chat_reactions' =
             IF removed
             THEN [chat_reactions EXCEPT ![room_id][message_id] =
                      hset(key, emoji, json_dumps(ListRemove(user_ids, user_id)))]
             ELSE chat_reactions
        /\ chat_prev' = chat_call
        /\ chat_call' = ReactionCall("remove_reaction", room_id, message_id, emoji,
                                     user_id, removed)
        /\ UNCHANGED <<chat_messages, next_message_id, socket_vars, db_vars>>

remove_reaction(room_id, message_id, emoji, user_id) ==
    LET key == chat_reactions[room_id][message_id]
        existing == hget(key, emoji)
        user_ids == IF existing # {} THEN json_loads(TheState(existing)) ELSE <<>>
        removed == existing # {} /\ user_id \in SeqToSet(user_ids)
        left == ListRemove(user_ids, user_id)
    IN  /\ chat_reactions' =
             IF removed
             THEN [chat_reactions EXCEPT ![room_id][message_id] =
                      IF left # <<>> THEN hset(key, emoji, json_dumps(left))
                      ELSE hdel(key, emoji)]
             ELSE chat_reactions
        /\ chat_prev' = chat_call
        /\ chat_call' = ReactionCall("remove_reaction", room_id, message_id, emoji,
                                     user_id, removed)
        /\ UNCHANGED <<chat_messages, next_message_id, socket_vars, db_vars>>

\* add_message in task h up to the await of rpush: LRANGE 0 -1 is executed and the
\* entries are searched for msg_id; a hit ends the call with the stored message.
add_message_lrange(h, room_id, post, message_id) ==
    LET msg_id == IF message_id # NoId THEN message_id
                  ELSE GeneratedBase + next_message_id
        msg_timestamp == IF post.timestamp # NoTimestamp THEN post.timestamp ELSE now
        existing_messages == LRange(chat_messages[room_id], 0, -1)
        hits == {i \in 1..Len(existing_messages) :
                    json_loads(existing_messages[i]).id = msg_id}
        message_obj == [id |-> msg_id, user_id |-> post.user_id,
                        username |-> post.username, message |-> post.message,
                        timestamp |-> msg_timestamp, reply_to_id |-> NoId]
        this == [op |-> "add_message", room_id |-> room_id,
                 message_id |-> message_id, user_id |-> post.user_id,
                 username |-> post.username, message |-> post.message,
                 timestamp |-> post.timestamp, existed |-> hits # {},
                 found |-> chat_messages[room_id],
                 result |-> IF hits # {}
                            THEN json_loads(existing_messages[CHOOSE i \in hits :
                                                                 \A j \in hits : i <= j])
                            ELSE message_obj]
    IN  /\ handlers[h] = Idle
        /\ message_id = NoId => next_message_id <= MaxGenerated
        /\ next_message_id' = IF message_id = NoId THEN next_message_id + 1
                              ELSE next_message_id
        /\ IF hits # {}
           THEN /\ chat_prev' = Earlier(chat_call)
                /\ chat_call' = this
                /\ UNCHANGED handlers
           ELSE /\ handlers' = [handlers EXCEPT ![h] = [pc |-> "rpush", this |-> this]]
                /\ UNCHANGED <<chat_call, chat_prev>>
        /\ UNCHANGED <<chat_messages, chat_reactions>>
        /\ UNCHANGED <<room_connections, pending_requests, next_request_id, video_state,
                       now, outbox, last_video_state, call, before, sweep_at,
                       sweep_expired, registry_vars, db_vars>>

\* RPUSH of task h's message is executed.
add_message_rpush(h) ==
    LET t == handlers[h]
    IN  /\ t.pc = "rpush"
        /\ chat_messages' = [chat_messages EXCEPT ![t.this.room_id] =
                                 Append(@, json_dumps(t.this.result))]
        /\ handlers' = [handlers EXCEPT ![h] = [t EXCEPT !.pc = "ltrim"]]
        /\ UNCHANGED <<chat_reactions, next_message_id, chat_call, chat_prev>>
        /\ UNCHANGED <<room_connections, pending_requests, next_request_id, video_state,
                       now, outbox, last_video_state, call, before, sweep_at,
                       sweep_expired, registry_vars, db_vars>>

\* LTRIM of task h is executed and add_message returns its message.
add_message_ltrim(h) ==
    LET t == handlers[h]
    IN  /\ t.pc = "ltrim"
        /\ chat_messages' = [chat_messages EXCEPT ![t.this.room_id] =
                                 LRange(@, -MAX_MESSAGES, -1)]
        /\ handlers' = [handlers EXCEPT ![h] = Idle]
        /\ chat_prev' = Earlier(chat_call)
        /\ chat_call' = t.this
        /\ UNCHANGED <<chat_reactions, next_message_id>>
        /\ UNCHANGED <<room_connections, pending_requests, next_request_id, video_state,
                       now, outbox, last_video_state, call, before, sweep_at,
                       sweep_expired, registry_vars, db_vars>>

\* add_reaction in task h up to the await of hset: HGET is executed; an author who
\* is in the list already ends the call with False.
add_reaction_hget(h, room_id, message_id, emoji, user_id) ==
    LET key == chat_reactions[room_id][message_id]
        existing == hget(key, emoji)
        user_ids == IF existing # {} THEN json_loads(TheState(existing)) ELSE <<>>
        added == user_id \notin SeqToSet(user_ids)
        this == ReactionCall("add_reaction", room_id, message_id, emoji, user_id, added)
    IN  /\ handlers[h] = Idle
        /\ IF added
           THEN /\ handlers' = [handlers EXCEPT ![h] =
                       [pc |-> "hset", this |-> this,
                        user_ids |-> Append(user_ids, user_id)]]
                /\ UNCHANGED <<chat_call, chat_prev>>
           ELSE /\ chat_prev' = chat_call
                /\ chat_call' = this
                /\ UNCHANGED handlers
        /\ UNCHANGED <<chat_messages, chat_reactions, next_message_id>>
        /\ UNCHANGED <<room_connections, pending_requests, next_request_id, video_state,
                       now, outbox, last_video_state, call, before, sweep_at,
                       sweep_expired, registry_vars, db_vars>>

\* HSET of task h's list is executed and add_reaction returns True.
add_reaction_hset(h) ==
    LET t == handlers[h]
    IN  /\ t.pc = "hset"
        /\ chat_reactions' =
              [chat_reactions EXCEPT ![t.this.room_id][t.this.message_id] =
                  hset(@, t.this.emoji, json_dumps(t.user_ids))]
        /\ handlers' = [handlers EXCEPT ![h] = Idle]
        /\ chat_prev' = chat_call
        /\ chat_call' = t.this
        /\ UNCHANGED <<chat_messages, next_message_id>>
        /\ UNCHANGED <<room_connections, pending_requests, next_request_id, video_state,
                       now, outbox, last_video_state, call, before, sweep_at,
                       sweep_expired, registry_vars, db_vars>>

\* SpecPostTwice: messages posted with a client-supplied id or without one, in
\* requests whose add_message calls may overlap.
NextPostTwice ==
    \/ \E h \in Handlers, r \in Rooms, p \in Posts, m \in PostedIds :
          add_message_lrange(h, r, p, m)
    \/ \E h \in Handlers : add_message_rpush(h)
    \/ \E h \in Handlers : add_message_ltrim(h)

SpecPostTwice == Init /\ [][NextPostTwice]_vars

\* SpecReactTwice: authors react to message 1 with one emoji in calls that may
\* overlap.
NextReactTwice ==
    \/ \E h \in Handlers, r \in Rooms, u \in Users :
          add_reaction_hget(h, r, 1, "thumbsup", u)
    \/ \E h \in Handlers : add_reaction_hset(h)

SpecReactTwice == Init /\ [][NextReactTwice]_vars

NextChat ==
    \/ \E r \in Rooms, p \in Posts, m \in PostedIds : add_message(r, p, m)
    \/ \E r \in Rooms, l \in Limits : get_messages(r, l)

InitChat == SocketInit /\ ChatInitStored /\ DbInit

SpecChat == InitChat /\ [][NextChat]_vars

NextReactions ==
    \/ \E r \in Rooms, m \in MessageIds, e \in Emojis :
          \E u \in Reactors(m) : add_reaction(r, m, e, u)
    \/ \E r \in Rooms, m \in MessageIds, e \in Emojis :
          \E u \in Reactors(m) : remove_reaction(r, m, e, u)

SpecReactions == Init /\ [][NextReactions]_vars

----------------------------------------------------------------------------
(* The guests table and the moderation API.  Every request runs in its own       *)
(* database session (get_db): the service function selects the row, changes the *)
(* loaded object, flushes (an UPDATE of the changed columns, which waits for    *)
(* the row's lock) and refreshes; the endpoint emits its events; get_db commits *)
(* when the endpoint has returned.  PostgreSQL runs the sessions READ           *)
(* COMMITTED: a SELECT sees the committed row and the session's own writes.     *)
(* Room r1 exists and is active throughout.                                     *)

Columns == {"role", "permissions_json", "join_status", "kicked"}

Perms(can_chat, can_voice) == [can_chat |-> can_chat, can_voice |-> can_voice]

\* Guest(...) with the column defaults of models/guest.py.
NewGuest ==
    [role |-> "viewer", permissions_json |-> Perms(FALSE, FALSE),
     join_status |-> "pending", kicked |-> FALSE]

\* The Guest that admin_join_room builds for the admin.
AdminGuest ==
    [role |-> "moderator", permissions_json |-> Perms(TRUE, TRUE),
     join_status |-> "accepted", kicked |-> FALSE]

InsertOps == {"join_guest", "admin_join_room"}
UpdateOps == {"accept_guest", "reject_guest", "kick_guest", "update_permissions",
              "promote_guest", "demote_guest"}

\* dict.update on the two permission keys.
MergePermissions(current, permissions) ==
    [k \in {"can_chat", "can_voice"} |->
        IF k \in DOMAIN permissions THEN permissions[k] ELSE current[k]]

\* Mutant: an update_permissions that replaces the permissions by the patch.
ModifyReplacing(op, guest, permissions) ==
    CASE op = "accept_guest" -> [guest EXCEPT !.join_status = "accepted"]
      [] op = "reject_guest" -> [guest EXCEPT !.join_status = "rejected"]
      [] op = "kick_guest" -> [guest EXCEPT !.kicked = TRUE]
      [] op = "update_permissions" ->
            [guest EXCEPT !.permissions_json =
                IF guest.role = "moderator" THEN Perms(TRUE, TRUE)
                ELSE MergePermissions(Perms(FALSE, FALSE), permissions)]
      [] op = "promote_guest" ->
            [guest EXCEPT !.role = "moderator", !.permissions_json = Perms(TRUE, TRUE)]
      [] op = "demote_guest" ->
            [guest EXCEPT !.role = "viewer", !.permissions_json = Perms(FALSE, FALSE)]

\* What each service function does to the object it has loaded, before it flushes.
Modify(op, guest, permissions) ==
    CASE op = "accept_guest" -> [guest EXCEPT !.join_status = "accepted"]
      [] op = "reject_guest" -> [guest EXCEPT !.join_status = "rejected"]
      [] op = "kick_guest" -> [guest EXCEPT !.kicked = TRUE]
      [] op = "update_permissions" ->
            [guest EXCEPT !.permissions_json =
                IF guest.role = "moderator" THEN Perms(TRUE, TRUE)
                ELSE MergePermissions(guest.permissions_json, permissions)]
      [] op = "promote_guest" ->
            [guest EXCEPT !.role = "moderator", !.permissions_json = Perms(TRUE, TRUE)]
      [] op = "demote_guest" ->
            [guest EXCEPT !.role = "viewer", !.permissions_json = Perms(FALSE, FALSE)]

\* The row as session s sees it: the committed row under the session's own writes.
View(s) ==
    LET ses == db_sessions[s]
    IN  [c \in Columns |-> IF c \in DOMAIN ses.writes THEN ses.writes[c]
                           ELSE guests[ses.guest_id][c]]

Inserting(g) ==
    \E s \in Sessions : db_sessions[s].pc # "idle" /\ db_sessions[s].guest_id = g
                        /\ db_sessions[s].op \in InsertOps

\* The request arrives and the service function runs up to its first flush: an
\* insert builds the new Guest, the other operations select the row (a missing row
\* is a 404 and changes nothing) and change the loaded object.
db_request(s, op, guest_id, permissions) ==
    /\ db_sessions[s].pc = "idle"
    /\ IF op \in InsertOps
       THEN /\ guest_id \notin DOMAIN guests
            /\ ~Inserting(guest_id)
            /\ db_sessions' = [db_sessions EXCEPT ![s] =
                  [pc |-> "flush", op |-> op, guest_id |-> guest_id,
                   permissions |-> permissions, forced |-> FALSE,
                   loaded |-> {},
                   obj |-> IF op = "join_guest" THEN NewGuest ELSE AdminGuest,
                   writes |-> <<>>]]
       ELSE /\ guest_id \in DOMAIN guests
            /\ db_sessions' = [db_sessions EXCEPT ![s] =
                  [pc |-> "flush", op |-> op, guest_id |-> guest_id,
                   permissions |-> permissions, forced |-> FALSE,
                   loaded |-> {guests[guest_id]},
                   obj |-> Modify(op, guests[guest_id], permissions),
                   writes |-> <<>>]]
    /\ UNCHANGED <<guests, row_lock, promoted, socket_vars, chat_vars, room_vars>>

\* The columns whose value differs from the value loaded: what the flush writes.
Changed(ses) ==
    IF ses.loaded = {} THEN Columns
    ELSE {c \in Columns : ses.obj[c] # TheState(ses.loaded)[c]}

\* db.flush(): INSERT the new row, or UPDATE the changed columns once the row's
\* lock is free; the write stays private to the session until it commits.
db_flush(s) ==
    LET ses == db_sessions[s]
        changed == Changed(ses)
    IN  /\ ses.pc = "flush"
        /\ changed # {} => row_lock[ses.guest_id] \subseteq {s}
        /\ row_lock' = IF changed # {} THEN [row_lock EXCEPT ![ses.guest_id] = {s}]
                       ELSE row_lock
        /\ db_sessions' = [db_sessions EXCEPT ![s] =
              [ses EXCEPT !.pc = "refresh",
                          !.writes = [c \in DOMAIN ses.writes \cup changed |->
                                         IF c \in changed THEN ses.obj[c]
                                         ELSE ses.writes[c]]]]
        /\ UNCHANGED <<guests, promoted, socket_vars, chat_vars, room_vars>>

\* The room, the address and the fingerprint that join_guest stored in each Guest.
RoomOf(guest_id) == "r1"
IpOf(guest_id) == IF guest_id = "g1" THEN "10.0.0.1" ELSE "10.0.0.2"
FingerprintOf(guest_id) == IF guest_id = "g1" THEN "fp1" ELSE "fp2"

DefaultBanTtl == 86400      \* 24 * 3600

\* kick_guest's TTL: the whole seconds until the room's ended_at, never below 0,
\* and the default when there is no room, no ended_at or nothing remains.
BanTtl(room_id) ==
    LET ttl == IF room_id \in DOMAIN rooms /\ rooms[room_id].ended_at # {}
               THEN {Max(0, TheState(rooms[room_id].ended_at) - now)}
               ELSE {}
    IN  IF ttl # {} /\ TheState(ttl) > 0 THEN TheState(ttl) ELSE DefaultBanTtl

BanKeys(guest_id) ==
    {<<"ban:ip", RoomOf(guest_id), IpOf(guest_id)>>,
     <<"ban:fp", RoomOf(guest_id), FingerprintOf(guest_id)>>}

\* redis.set(key, "1", expire=ban_ttl) for the two keys; RedisClient.set returns
\* without a write when it has no connection and logs the error of a failed SET.
SetBans(guest_id) ==
    [k \in DOMAIN bans \cup BanKeys(guest_id) |->
        IF k \in BanKeys(guest_id) THEN BanTtl(RoomOf(guest_id)) ELSE bans[k]]

\* db.refresh(guest): the object is loaded again.  promote_guest then checks the
\* permissions it reads back and sets them again when they are not both true;
\* kick_guest then selects the guest's room and sets the two ban keys.
db_refresh(s) ==
    LET ses == db_sessions[s]
        row == View(s)
        force == /\ ses.op = "promote_guest"
                 /\ ~ses.forced
                 /\ row.permissions_json # Perms(TRUE, TRUE)
    IN  /\ ses.pc = "refresh"
        /\ db_sessions' = [db_sessions EXCEPT ![s] =
              [ses EXCEPT !.loaded = {row},
                          !.obj = IF force
                                  THEN [row EXCEPT !.permissions_json = Perms(TRUE, TRUE)]
                                  ELSE row,
                          !.forced = force,
                          !.pc = IF force THEN "flush" ELSE "respond"]]
        /\ bans' = IF ses.op = "kick_guest" /\ redis_up THEN SetBans(ses.guest_id)
                   ELSE bans
        /\ UNCHANGED <<guests, row_lock, promoted, socket_vars, chat_vars,
                       rooms, room_sessions, next_room_id, redis_up>>

EmptyPayload == [k \in {} |-> TRUE]     \* the payload {}

\* The events of the endpoint (and of join_guest itself), emitted before the commit.
ApiEvents(ses) ==
    LET room_id == "r1"
        connected == ses.guest_id \in DOMAIN room_connections[room_id]
        sid == room_connections[room_id][ses.guest_id].sid
    IN  CASE ses.op = "join_guest" ->
                <<ToRoom(room_id, "new_join_request", [guest_id |-> ses.guest_id])>>
          [] ses.op = "accept_guest" ->
                <<ToRoom(room_id, "user_list_updated", EmptyPayload)>>
          [] ses.op = "update_permissions" ->
                IF connected
                THEN <<ToSid(sid, "permissions_updated",
                             [permissions |-> ses.permissions])>>
                ELSE <<>>
          [] ses.op = "kick_guest" ->
                (IF connected
                 THEN <<ToSid(sid, "kicked",
                              [message |-> "You were removed from the room"])>>
                 ELSE <<>>)
                \o <<ToRoom(room_id, "user_list_updated", EmptyPayload)>>
          [] OTHER -> <<>>

db_respond(s) ==
    LET ses == db_sessions[s]
    IN  /\ ses.pc = "respond"
        /\ call' = [op |-> ses.op, session |-> s, guest_id |-> ses.guest_id]
        /\ Emit(ApiEvents(ses))
        /\ db_sessions' = [db_sessions EXCEPT ![s] = [ses EXCEPT !.pc = "commit"]]
        /\ UNCHANGED <<guests, row_lock, promoted, room_connections,
                       pending_requests, next_request_id, video_state, now, chat_vars,
                       task_vars, registry_vars, room_vars>>

\* get_db: session.commit() once the endpoint has returned.
db_commit(s) ==
    LET ses == db_sessions[s]
        g == ses.guest_id
    IN  /\ ses.pc = "commit"
        /\ guests' = IF ses.writes = <<>> THEN guests
                     ELSE [k \in DOMAIN guests \cup {g} |->
                              IF k = g THEN View(s) ELSE guests[k]]
        /\ row_lock' = [row_lock EXCEPT ![g] = @ \ {s}]
        /\ db_sessions' = [db_sessions EXCEPT ![s] = Idle]
        /\ promoted' = IF ses.op = "promote_guest" THEN [promoted EXCEPT ![g] = TRUE]
                       ELSE IF ses.op = "demote_guest" THEN [promoted EXCEPT ![g] = FALSE]
                       ELSE promoted
        /\ call' = [op |-> "commit", request |-> ses.op, session |-> s, guest_id |-> g,
                    permissions |-> ses.permissions,
                    was |-> IF g \in DOMAIN guests THEN {guests[g]} ELSE {}]
        /\ Emit(<<>>)
        /\ UNCHANGED <<room_connections, pending_requests, next_request_id,
                       video_state, now, chat_vars, task_vars, registry_vars, room_vars>>

\* The guest each operation is asked for: the admin's own guest is g1.
Targets(op) ==
    IF op = "admin_join_room" THEN {"g1"}
    ELSE IF op = "join_guest" THEN {"g2"}
    ELSE Guests

PatchesOf(op) == IF op = "update_permissions" THEN Patches ELSE {NoPatch}

SessionSteps(s, ops, targets) ==
    \/ \E op \in ops : \E g \in Targets(op) \cap targets, p \in PatchesOf(op) :
          db_request(s, op, g, p)
    \/ db_flush(s)
    \/ db_refresh(s)
    \/ db_respond(s)
    \/ db_commit(s)

\* SpecGuests: the moderation requests, served one at a time.
NextGuests == SessionSteps("a", InsertOps \cup UpdateOps, Guests)

SpecGuests == Init /\ [][NextGuests]_vars

\* SpecRace: update_permissions and promote_guest requests for guest g2, who has
\* joined and been accepted, served by two sessions at once.
OverlappingOps == {"update_permissions", "promote_guest"}

RaceInit ==
    /\ guests = [g \in {"g2"} |-> [NewGuest EXCEPT !.join_status = "accepted"]]
    /\ db_sessions = [s \in Sessions |-> Idle]
    /\ row_lock = [g \in Guests |-> {}]
    /\ promoted = [g \in Guests |-> FALSE]
    /\ RoomInit

NextRace == \E s \in Sessions : SessionSteps(s, OverlappingOps, {"g2"})

InitRace == SocketInit /\ ChatInit /\ RaceInit

SpecRace == InitRace /\ [][NextRace]_vars

\* SpecPromote: guests join, are accepted and promoted through the API, open
\* their socket announcing the role the database gives them at that moment, and
\* send video:play.
PromoteOps == {"join_guest", "admin_join_room", "accept_guest", "promote_guest"}
PlayPositions == {0, 20}

ClientJoins(g) ==
    /\ g \in DOMAIN guests
    /\ guests[g].join_status = "accepted"
    /\ ~guests[g].kicked
    /\ join_room(SidOf(g), "r1", g, guests[g].role, DefaultName)

NextPromote ==
    \/ SessionSteps("a", PromoteOps, Guests)
    \/ \E g \in Guests : ClientJoins(g)
    \/ \E g \in Guests, t \in PlayPositions : video_play(SidOf(g), "r1", g, t)

SpecPromote == Init /\ [][NextPromote]_vars

----------------------------------------------------------------------------
(* Rooms: services/room_service.py behind api/v1/room.py *)

\* The ids (uuid4) that new rooms get, in the order they are generated.
RoomIds == <<"r1", "r2", "r3">>

\* close_room's countdown_seconds.
CloseCountdown == 60

\* Room(): a new room is active and has no end.
NewRoom == [is_active |-> TRUE, ended_at |-> {}]

\* SELECT ... WHERE is_active = true, on the committed rows.
ActiveRooms == {id \in DOMAIN rooms : rooms[id].is_active}

\* POST /room, up to the return of the endpoint: the query for an active room (any
\* such row is answered with 400, and more than one makes scalar_one_or_none raise),
\* then the INSERT of the new room, flushed and not yet committed.
create_room(s) ==
    /\ room_sessions[s].pc = "idle"
    /\ next_room_id <= Len(RoomIds)
    /\ IF ActiveRooms # {}
       THEN /\ call' = [op |-> "create_room", session |-> s, status |-> 400]
            /\ UNCHANGED <<room_sessions, next_room_id>>
       ELSE /\ call' = [op |-> "create_room", session |-> s, status |-> 200]
            /\ room_sessions' = [room_sessions EXCEPT ![s] =
                                    [pc |-> "commit", room_id |-> RoomIds[next_room_id]]]
            /\ next_room_id' = next_room_id + 1
    /\ Emit(<<>>)
    /\ UNCHANGED <<rooms, bans, redis_up, guests, db_sessions, row_lock, promoted, room_connections,
                   pending_requests, next_request_id, video_state, now, chat_vars,
                   task_vars, registry_vars>>

\* get_db: session.commit() once create_room's endpoint has returned.
room_commit(s) ==
    LET id == room_sessions[s].room_id
    IN  /\ room_sessions[s].pc = "commit"
        /\ rooms' = [k \in DOMAIN rooms \cup {id} |-> IF k = id THEN NewRoom ELSE rooms[k]]
        /\ room_sessions' = [room_sessions EXCEPT ![s] = Idle]
        /\ call' = [op |-> "commit", request |-> "create_room", session |-> s,
                    room_id |-> id]
        /\ Emit(<<>>)
        /\ UNCHANGED <<next_room_id, bans, redis_up, guests, db_sessions, row_lock, promoted,
                       room_connections, pending_requests, next_request_id, video_state,
                       now, chat_vars, task_vars, registry_vars>>

\* DELETE /room/{room_id}: the row is selected (404 when there is none), is_active
\* and ended_at are set, the session is committed by the endpoint itself, and
\* room_closed is then sent to the room.
close_room(room_id) ==
    /\ IF room_id \in DOMAIN rooms
       THEN /\ call' = [op |-> "close_room", room_id |-> room_id, status |-> 200]
            /\ rooms' = [rooms EXCEPT ![room_id] =
                            [is_active |-> FALSE, ended_at |-> {now + CloseCountdown}]]
            /\ Emit(<<ToRoom(room_id, "room_closed", [message |-> "Room has ended"])>>)
       ELSE /\ call' = [op |-> "close_room", room_id |-> room_id, status |-> 404]
            /\ Emit(<<>>)
            /\ UNCHANGED rooms
    /\ UNCHANGED <<room_sessions, next_room_id, bans, redis_up, guests, db_sessions, row_lock,
                   promoted,
                   room_connections, pending_requests, next_request_id, video_state, now,
                   chat_vars, task_vars, registry_vars>>

\* SpecRooms: the admin creates and closes rooms from two clients whose requests may
\* overlap, while a moderator announces itself in room r1 and plays.
NextRooms ==
    \/ \E s \in Sessions : create_room(s)
    \/ \E s \in Sessions : room_commit(s)
    \/ \E i \in 1..Len(RoomIds) : close_room(RoomIds[i])
    \/ \E g \in Guests, r \in Rooms : \E role \in JoinRoles(g) :
          join_room(SidOf(g), r, g, role, DefaultName)
    \/ \E t \in PlayPositions, r \in Rooms : video_play(SidOf("g1"), r, "g1", t)

SpecRooms == Init /\ [][NextRooms]_vars

\* SpecKick: a room is created and closed, guest g2 joins and is kicked, and the
\* clock moves on.
NextKick ==
    \/ create_room("a")
    \/ room_commit("a")
    \/ close_room("r1")
    \/ Elapse
    \/ SessionSteps("b", {"join_guest", "kick_guest"}, {"g2"})

SpecKick == Init /\ [][NextKick]_vars

\* Redis becomes unreachable, and reachable again.
redis_fails ==
    /\ redis_up
    /\ redis_up' = FALSE
    /\ UNCHANGED <<socket_vars, chat_vars, guests, db_sessions, row_lock, promoted,
                   rooms, room_sessions, next_room_id, bans>>

redis_recovers ==
    /\ ~redis_up
    /\ redis_up' = TRUE
    /\ UNCHANGED <<socket_vars, chat_vars, guests, db_sessions, row_lock, promoted,
                   rooms, room_sessions, next_room_id, bans>>

\* SpecBan: guests join and are kicked while Redis comes and goes.
NextBan ==
    \/ redis_fails
    \/ redis_recovers
    \/ SessionSteps("a", {"join_guest", "admin_join_room", "kick_guest"}, Guests)

SpecBan == Init /\ [][NextBan]_vars

\* The role a client may put into its join_room payload.
AnnouncedRoles == {"viewer", "moderator", "admin"}

\* SpecAnnounce: guest g2 joins through the API, which stores it as a viewer, then
\* announces itself on its socket with a role of its choice and sends control
\* messages, a pause request and its approval.
NextAnnounce ==
    \/ SessionSteps("a", {"join_guest"}, {"g2"})
    \/ \E role \in AnnouncedRoles : join_room(SidOf("g2"), "r1", "g2", role, DefaultName)
    \/ \E t \in PlayPositions : video_play(SidOf("g2"), "r1", "g2", t)
    \/ \E t \in PlayPositions : video_pause(SidOf("g2"), "r1", "g2", t)
    \/ \E t \in PlayPositions : video_seek(SidOf("g2"), "r1", "g2", t)
    \/ \E v \in Videos : video_switch(SidOf("g2"), "r1", "g2", v)
    \/ request_pause(SidOf("g2"), "r1", "g2")
    \/ \E q \in 1..MaxRequests : approve_request(SidOf("g2"), q, "r1", "g2")

SpecAnnounce == Init /\ [][NextAnnounce]_vars

\* SpecKicked: the admin (guest g1) and guest g2 join through the API and announce
\* themselves on their sockets, guests are kicked, and the connections that are
\* still open go on sending control messages, requests and approvals.
NextKicked ==
    \/ SessionSteps("a", {"admin_join_room", "join_guest", "kick_guest"}, Guests)
    \/ \E g \in Guests : \E role \in JoinRoles(g) :
          join_room(SidOf(g), "r1", g, role, DefaultName)
    \/ \E g \in Guests, t \in PlayPositions : video_play(SidOf(g), "r1", g, t)
    \/ \E g \in Guests, t \in PlayPositions : video_pause(SidOf(g), "r1", g, t)
    \/ request_pause(SidOf("g2"), "r1", "g2")
    \/ \E g \in Guests, q \in 1..MaxRequests : approve_request(SidOf(g), q, "r1", g)

SpecKicked == Init /\ [][NextKicked]_vars

----------------------------------------------------------------------------
(* What the last call was, read off the history variables *)

ControlOps == {"video:play", "video:pause", "video:seek", "video:switch"}

CallIsControl == call.op \in ControlOps

CallWellFormed ==
    /\ call.room_id # Missing
    /\ call.op = "video:switch" => call.video_id # Missing

CallerRole == get_user_role(call.guest_id, call.room_id)

CallAuthorized == is_admin_or_mod(CallerRole)

\* The stored state of the call's room as the call found it.
Found == before.video_state[call.room_id]

\* The media id and is_playing the call asks for.
AskedVideo ==
    IF call.op = "video:switch" THEN call.video_id
    ELSE IF Found # {} THEN TheState(Found).current_video_id ELSE NoVideo

AskedPlaying ==
    IF call.op = "video:play" THEN TRUE
    ELSE IF call.op \in {"video:pause", "video:switch"} THEN FALSE
    ELSE IF Found # {} THEN TheState(Found).is_playing ELSE FALSE

\* A play/pause edge or a media switch, as opposed to a position report.
CallIsEdge ==
    \/ Found = {}
    \/ TheState(Found).is_playing # AskedPlaying
    \/ TheState(Found).current_video_id # AskedVideo

CallIsPositionOnly ==
    /\ call.op \in {"video:play", "video:pause", "video:seek"}
    /\ CallWellFormed /\ CallAuthorized
    /\ Found # {}
    /\ ~CallIsEdge

Abs(x) == IF x < 0 THEN -x ELSE x

PositionDelta == Abs(call.timestamp - TheState(Found).current_timestamp)

BroadcastsVideoState(r) == \E i \in 1..Len(outbox) : IsVideoStateTo(outbox[i], r)

EmitsToRoom == \E i \in 1..Len(outbox) : outbox[i].kind # "sid"

----------------------------------------------------------------------------
(* C1: for authorized control calls handled one at a time, the room's last
   video_state broadcast carries the media id and is_playing of the stored
   state, and a call that changes is_playing or the media id is stored and
   broadcast whatever position reports preceded it and however recently the
   room last broadcast. *)
C1_EdgesNeverLost ==
    /\ \A r \in Rooms :
          /\ (last_video_state[r] = {}) <=> (video_state[r] = {})
          /\ video_state[r] # {} =>
                /\ TheState(last_video_state[r]).current_video_id
                      = TheState(video_state[r]).current_video_id
                /\ TheState(last_video_state[r]).is_playing
                      = TheState(video_state[r]).is_playing
    /\ (CallIsControl /\ CallWellFormed /\ CallAuthorized /\ CallIsEdge) =>
          /\ video_state[call.room_id] # {}
          /\ TheState(video_state[call.room_id]).current_video_id = AskedVideo
          /\ TheState(video_state[call.room_id]).is_playing = AskedPlaying
          /\ last_video_state[call.room_id] = video_state[call.room_id]
          /\ BroadcastsVideoState(call.room_id)

\* A pause edge stored and broadcast in the same second as the position report before it.
C1_Witness ==
    /\ call.op = "video:pause" /\ CallWellFormed /\ CallAuthorized
    /\ Found # {} /\ TheState(Found).is_playing
    /\ TheState(Found).last_updated = now
    /\ TheState(Found).current_timestamp = 1
    /\ BroadcastsVideoState(call.room_id)
    /\ ~TheState(video_state[call.room_id]).is_playing

(* C2: a position-only update less than 1.0 s (2 half seconds) away from the
   stored position produces no video_state broadcast and leaves the stored
   Playback State unchanged. *)
C2_SmallDeltaSuppressed ==
    (CallIsPositionOnly /\ PositionDelta < 2) =>
        /\ ~BroadcastsVideoState(call.room_id)
        /\ video_state = before.video_state

(* C3: a position-only update at least 1.0 s away from the stored position is
   suppressed while the room's last broadcast is less than 2 s old, and is
   stored and broadcast once the 2 s have passed. *)
C3_DebounceWindow ==
    (CallIsPositionOnly /\ PositionDelta >= 2) =>
        IF now - TheState(Found).last_updated < 2
        THEN /\ ~BroadcastsVideoState(call.room_id)
             /\ video_state = before.video_state
        ELSE /\ BroadcastsVideoState(call.room_id)
             /\ TheState(video_state[call.room_id]).current_timestamp = call.timestamp

(* C4: a well-formed control call (a room id, and for video:switch a video id)
   from an actor whose registry role is neither moderator nor admin leaves the
   stored Playback State and the pending requests unchanged and emits exactly
   one event: error 'Unauthorized' to the sender's own connection. *)
C4_UnauthorizedRejected ==
    (CallIsControl /\ CallWellFormed /\ ~CallAuthorized) =>
        /\ video_state = before.video_state
        /\ pending_requests = before.pending_requests
        /\ outbox = <<ErrorTo(call.sid, "Unauthorized")>>

\* C4 as first stated: every control call of such an actor is answered 'Unauthorized'.
C4_Original ==
    (CallIsControl /\ call.room_id # Missing /\ ~CallAuthorized) =>
        /\ video_state = before.video_state
        /\ pending_requests = before.pending_requests
        /\ outbox = <<ErrorTo(call.sid, "Unauthorized")>>

\* A viewer's video:pause rejected while a state is stored and a pause request is pending.
C4_Witness ==
    /\ call.op = "video:pause" /\ CallWellFormed /\ ~CallAuthorized
    /\ video_state[call.room_id] # {}
    /\ \E q \in DOMAIN pending_requests : pending_requests[q].type = "pause"
    /\ outbox = <<ErrorTo(call.sid, "Unauthorized")>>

----------------------------------------------------------------------------
\* The request an approve:request or dismiss:request call named, if it was pending.
CallNamesPending ==
    /\ call.op \in {"approve:request", "dismiss:request"}
    /\ call.request_id \in DOMAIN before.pending_requests

NamedRequest == before.pending_requests[call.request_id]

Emitted(e) == \E i \in 1..Len(outbox) : outbox[i] = e

(* C10: when a moderator approves a pending pause request, a video_state with
   is_playing = false and the room's current media id is stored and broadcast,
   the request leaves the pending set, request_approved is broadcast, and
   every other pending request is left as it was. *)
C10_PauseApproved ==
    (/\ call.op = "approve:request" /\ CallNamesPending /\ CallAuthorized
     /\ NamedRequest.type = "pause") =>
        /\ video_state[call.room_id] # {}
        /\ ~TheState(video_state[call.room_id]).is_playing
        /\ Found # {} => TheState(video_state[call.room_id]).current_video_id
                            = TheState(Found).current_video_id
        /\ Emitted(ToRoom(call.room_id, "video_state", TheState(video_state[call.room_id])))
        /\ Emitted(ToRoom(call.room_id, "request_approved",
                          [request_id |-> call.request_id, type |-> "pause"]))
        /\ pending_requests = Without(before.pending_requests, {call.request_id})

\* The last call is an authorized approve:request of a pending request of type t
\* in a room that has a stored Playback State.
Approved(t) ==
    /\ call.op = "approve:request"
    /\ CallNamesPending
    /\ CallAuthorized
    /\ NamedRequest.type = t
    /\ Found # {}

\* C11: approving a pause request while the room is playing stores and broadcasts
\* a paused state whose position is the interpolated one: the stored position plus
\* the time elapsed since it was stored, up to the approval (positions count half
\* seconds, the clock counts seconds).
C11_PauseInterpolated ==
    (Approved("pause") /\ TheState(Found).is_playing) =>
        /\ video_state[call.room_id] # {}
        /\ ~TheState(video_state[call.room_id]).is_playing
        /\ TheState(video_state[call.room_id]).current_timestamp =
              TheState(Found).current_timestamp
                 + 2 * (TheState(video_state[call.room_id]).last_updated
                        - TheState(Found).last_updated)
        /\ Emitted(ToRoom(call.room_id, "video_state", TheState(video_state[call.room_id])))

ApprovedPending == call.op = "approve:request" /\ CallNamesPending /\ CallAuthorized

\* C39: after an authorized approve:request for a pending pause or rewind request
\* the request is no longer pending and an event about the outcome has been sent,
\* also when no Playback State is stored for the room.
C39_ApprovalConcludes ==
    ApprovedPending =>
        /\ call.request_id \notin DOMAIN pending_requests
        /\ outbox # <<>>

\* The last call was approve:request or dismiss:request naming an id not pending.
CallNamesUnknown ==
    /\ call.op \in {"approve:request", "dismiss:request"}
    /\ call.request_id \notin DOMAIN before.pending_requests

\* C32: approve:request or dismiss:request naming a request id that is not pending
\* changes neither the pending requests nor the Playback State and sends a
\* not-found error to the caller's own connection.
C32_UnknownRequest ==
    CallNamesUnknown =>
        /\ pending_requests = before.pending_requests
        /\ video_state = before.video_state
        /\ outbox = <<ErrorTo(call.sid, "Request not found")>>

\* C13: approve:request or dismiss:request for a pending request, sent by an actor
\* whose role is not moderator or admin, leaves the pending requests and the
\* Playback State unchanged and sends 'Unauthorized' to that actor's connection
\* only.
C13_UnauthorizedApproval ==
    (CallNamesPending /\ ~CallAuthorized) =>
        /\ pending_requests = before.pending_requests
        /\ video_state = before.video_state
        /\ outbox = <<ErrorTo(call.sid, "Unauthorized")>>

\* A viewer tried to dismiss a pending request while a Playback State is stored.
C13_Witness ==
    /\ CallNamesPending
    /\ ~CallAuthorized
    /\ call.op = "dismiss:request"
    /\ Found # {}

\* The request type that a control command makes moot.
MootType == IF call.op = "video:pause" THEN "pause" ELSE "rewind"

\* The requests that were pending for the call's room with the moot type.
Moot ==
    {k \in DOMAIN before.pending_requests :
        /\ before.pending_requests[k].room_id = call.room_id
        /\ before.pending_requests[k].type = MootType}

DismissedEvents == {i \in 1..Len(outbox) : outbox[i].name = "requests_dismissed"}

\* C15: after an authorized video:pause in room r no pause request for r is
\* pending, and after an authorized video:seek no rewind request for r; requests
\* of other types and of other rooms are left unchanged; and the
\* requests_dismissed event lists exactly the removed ids.
C15_AutoDismiss ==
    (call.op \in {"video:pause", "video:seek"} /\ CallWellFormed /\ CallAuthorized) =>
        /\ pending_requests = Without(before.pending_requests, Moot)
        /\ Moot = {} => DismissedEvents = {}
        /\ Moot # {} =>
              \E i \in DismissedEvents :
                 /\ DismissedEvents = {i}
                 /\ outbox[i].kind = "room" /\ outbox[i].to = call.room_id
                 /\ SeqToSet(outbox[i].payload.request_ids) = Moot
                 /\ Len(outbox[i].payload.request_ids) = Cardinality(Moot)

\* A pause command dismissed a pause request while a request of another room stayed.
C15_Witness ==
    /\ call.op = "video:pause" /\ CallWellFormed /\ CallAuthorized
    /\ Moot # {}
    /\ \E k \in DOMAIN pending_requests : pending_requests[k].room_id # call.room_id

----------------------------------------------------------------------------
(* Chat log and reactions *)

\* The last call was a join_room with both ids in its payload.
Joined == call.op = "join_room" /\ call.room_id # Missing /\ call.guest_id # Missing

\* The positions in the outbox of the events named name.
EventsNamed(name) == {i \in 1..Len(outbox) : outbox[i].name = name}

\* The state stored for the joined room when the join_room began.
StoredAtJoin ==
    IF call.room_id \in DOMAIN before.video_state
    THEN before.video_state[call.room_id] ELSE {}

(* C21: on join_room the joining connection, and only it, receives a video_state
   carrying exactly the stored state when one is stored, and no video_state
   otherwise; user_joined goes to the room with the joiner's connection skipped. *)
C21_JoinHydrates ==
    Joined =>
        /\ StoredAtJoin = {} => EventsNamed("video_state") = {}
        /\ StoredAtJoin # {} =>
              \E i \in EventsNamed("video_state") :
                  /\ EventsNamed("video_state") = {i}
                  /\ outbox[i] = ToSid(call.sid, "video_state", TheState(StoredAtJoin))
        /\ \E i \in EventsNamed("user_joined") :
              /\ EventsNamed("user_joined") = {i}
              /\ outbox[i].kind = "room_skip"
              /\ outbox[i].to = call.room_id
              /\ outbox[i].payload.skip_sid = call.sid
              /\ outbox[i].payload.guest_id = call.guest_id

\* A guest joins a room whose stored state was written by another guest's command.
C21_Witness ==
    /\ Joined
    /\ StoredAtJoin # {}
    /\ TheState(StoredAtJoin).controlled_by # call.guest_id
    /\ Len(outbox) = 2

(* C19: every registry entry holds the connection, role and username of the most
   recent join_room of its room and guest, and a join_room repeated with the same
   arguments leaves the registry as it was. *)
C19_LatestJoin ==
    /\ \A r \in RegistryRooms : \A g \in DOMAIN room_connections[r] :
          last_join[<<r, g>>] = {room_connections[r][g]}
    /\ \A r \in RegistryRooms :
          room_connections[r] # <<>> => \E i \in 1..Len(room_order) : room_order[i] = r
    /\ (/\ call.op = "join_room"
        /\ call.room_id # Missing
        /\ call.guest_id \in DOMAIN before.room_connections[call.room_id]
        /\ before.room_connections[call.room_id][call.guest_id] =
              [sid |-> call.sid, role |-> call.role, username |-> call.username]) =>
            room_connections = before.room_connections

\* A guest announces itself again on another connection with other arguments.
C19_Witness ==
    /\ call.op = "join_room"
    /\ call.room_id # Missing
    /\ call.guest_id \in DOMAIN before.room_connections[call.room_id]
    /\ before.room_connections[call.room_id][call.guest_id].sid # call.sid
    /\ \E r \in RegistryRooms, g \in Guests :
          last_join[<<r, g>>] # {} /\ g \notin DOMAIN room_connections[r]

\* The (room, guest) pairs whose entry held connection sid before the last step.
HeldBy(sid) ==
    {k \in RegistryRooms \X Guests :
        /\ k[2] \in DOMAIN before.room_connections[k[1]]
        /\ before.room_connections[k[1]][k[2]].sid = sid}

\* The entries the last step deleted.
Deleted ==
    {k \in RegistryRooms \X Guests :
        /\ k[2] \in DOMAIN before.room_connections[k[1]]
        /\ k[2] \notin DOMAIN room_connections[k[1]]}

\* No control handler is in progress.
Quiescent == \A h \in Handlers : handlers[h] = Idle

(* C24: video_state events are broadcast in the order in which their states were
   stored: once no handler is in progress, the last state broadcast to a room is
   the state stored for it. *)
C24_BroadcastOrder ==
    Quiescent => \A r \in Rooms : last_video_state[r] = video_state[r]

\* The state the last control:write replaced, and the state it stored.
Replaced == before.video_state[call.room_id]
Stored == TheState(video_state[call.room_id])

(* C25: overlapping control handlers are linearizable: the state a handler stores
   is the one it would compute from the state it replaces, so it keeps that
   state's media id and, for video:seek, that state's is_playing. *)
C25_Linearizable ==
    call.op = "control:write" =>
        /\ Stored.current_video_id =
              (IF Replaced # {} THEN TheState(Replaced).current_video_id ELSE NoVideo)
        /\ call.request = "video:seek" =>
              Stored.is_playing = (Replaced # {} /\ TheState(Replaced).is_playing)

\* The type of request each submit event asks for.
SubmitType ==
    CASE call.op = "request:pause" -> "pause"
      [] call.op = "request:rewind" -> "rewind"
      [] call.op = "request:message" -> "quick_message"
      [] OTHER -> "none"

(* C28: every submit (pause, rewind or quick message) adds exactly one pending
   request of its type under an id that was not pending, broadcasts it to its
   room as viewer_request, and sends the requester a confirmation with that id. *)
C28_SubmitAddsRequest ==
    SubmitType # "none" =>
        \E id \in DOMAIN pending_requests \ DOMAIN before.pending_requests :
            /\ DOMAIN pending_requests = DOMAIN before.pending_requests \cup {id}
            /\ \A k \in DOMAIN before.pending_requests :
                  pending_requests[k] = before.pending_requests[k]
            /\ pending_requests[id].type = SubmitType
            /\ pending_requests[id].room_id = call.room_id
            /\ Emitted(ToRoom(call.room_id, "viewer_request", pending_requests[id]))
            /\ \E i \in 1..Len(outbox) :
                  /\ outbox[i].kind = "sid"
                  /\ outbox[i].to = call.sid
                  /\ outbox[i].payload.request_id = id

(* C27: get_messages(room, limit) returns the min(limit, 200, n) most recently
   appended messages of the room's log of n messages, oldest first. *)
C27_LastMessages ==
    chat_call.op = "get_messages" =>
        LET n == Len(chat_call.found)
            k == Min(Min(chat_call.limit, MAX_MESSAGES), n)
        IN  chat_call.result = [i \in 1..k |-> json_loads(chat_call.found[n - k + i])]

(* C23: among the committed rooms at most one has is_active = true, also when two
   create_room requests overlap. *)
C23_OneActiveRoom == Cardinality(ActiveRooms) <= 1

(* C26: when a room has been closed, no Playback State is stored for it and
   room_closed has been broadcast to the room. *)
C26_ClosedRoomForgotten ==
    (call.op = "close_room" /\ call.status = 200) =>
        /\ get_video_state(call.room_id) = {}
        /\ Emitted(ToRoom(call.room_id, "room_closed", [message |-> "Room has ended"]))

(* C22: no guest is reported both online and offline since some time; for a guest
   whose entry a disconnect has just deleted, presence reports online = false,
   offline_since = the time of the disconnect, and stale = false as long as no
   time has passed since then.  (The clock stands still in SpecPresence.) *)
C22_PresenceAfterDisconnect ==
    /\ \A r \in RegistryRooms, g \in Guests :
          ~(get_guest_presence(r, g).online /\ get_guest_presence(r, g).offline_since # {})
    /\ call.op = "disconnect" =>
          \A k \in Deleted :
              /\ ~get_guest_presence(k[1], k[2]).online
              /\ get_guest_presence(k[1], k[2]).offline_since = {now}
              /\ ~get_guest_presence(k[1], k[2]).stale

(* C20: a step of disconnect(sid) deletes only entries that hold sid and emits
   user_left to the room of each entry it deletes, leaving every other entry as
   it was; when the handler has ended, no room has an entry that holds sid. *)
C20_DisconnectRemovesAll ==
    call.op = "disconnect" =>
        /\ Deleted \subseteq HeldBy(call.sid)
        /\ \A r \in RegistryRooms : \A g \in DOMAIN room_connections[r] :
              /\ g \in DOMAIN before.room_connections[r]
              /\ room_connections[r][g] = before.room_connections[r][g]
        /\ Len(outbox) = Cardinality(Deleted)
        /\ \A k \in Deleted :
              Emitted(ToRoom(k[1], "user_left",
                             [guest_id |-> k[2],
                              username |-> before.room_connections[k[1]][k[2]].username]))
        /\ call.done =>
              \A r \in RegistryRooms : \A g \in DOMAIN room_connections[r] :
                  room_connections[r][g].sid # call.sid

\* The last step committed request op on a guest whose row existed.
Committed(ops) ==
    /\ call.op = "commit"
    /\ call.request \in ops
    /\ call.was # {}

(* C29: update_permissions on a viewer sets exactly the flags its patch names and
   keeps the other flag; on a moderator both flags are true afterwards whatever
   the patch; no other column changes. *)
C29_PatchMerged ==
    Committed({"update_permissions"}) =>
        LET was == TheState(call.was)
            row == guests[call.guest_id]
        IN  /\ row.role = was.role
            /\ row.join_status = was.join_status
            /\ row.kicked = was.kicked
            /\ IF was.role = "moderator"
               THEN row.permissions_json = Perms(TRUE, TRUE)
               ELSE \A k \in {"can_chat", "can_voice"} :
                      row.permissions_json[k] =
                         IF k \in DOMAIN call.permissions THEN call.permissions[k]
                         ELSE was.permissions_json[k]

\* A viewer whose can_voice is true gets a patch that names can_chat only.
C29_Witness ==
    /\ Committed({"update_permissions"})
    /\ TheState(call.was).role = "viewer"
    /\ TheState(call.was).permissions_json = Perms(TRUE, TRUE)
    /\ DOMAIN call.permissions = {"can_chat"}
    /\ guests[call.guest_id].permissions_json = Perms(FALSE, TRUE)

\* Session s ends the service function of a kick_guest.
Kicks(s) ==
    /\ db_sessions[s].pc = "refresh"
    /\ db_sessions[s].op = "kick_guest"
    /\ db_sessions'[s].pc = "respond"

\* The room of the kicked guest has a scheduled end.
ScheduledEnd(room_id) ==
    IF room_id \in DOMAIN rooms THEN rooms[room_id].ended_at ELSE {}

(* C30: kick_guest sets kicked = true and records one ban for the guest's IP and
   one for the guest's fingerprint, both of the guest's room, with a TTL of the
   seconds remaining until the room's scheduled end when it has one and of 86400
   seconds when it has none. *)
C30_BanTtl ==
    [][\A s \in Sessions : Kicks(s) =>
          LET g == db_sessions[s].guest_id
              ended_at == ScheduledEnd(RoomOf(g))
              ttl == IF ended_at # {} THEN Max(0, TheState(ended_at) - now) ELSE 86400
          IN  /\ db_sessions'[s].obj.kicked
              /\ DOMAIN bans' = DOMAIN bans \cup BanKeys(g)
              /\ \A k \in DOMAIN bans' :
                    bans'[k] = IF k \in BanKeys(g) THEN ttl ELSE bans[k]]_vars

\* The role the guests table holds for a guest; Viewer when there is no row.
PersistedRole(guest_id) ==
    IF guest_id \in DOMAIN guests THEN guests[guest_id].role ELSE "viewer"

(* C36: a control message or a request approval of a guest whose persisted role is
   viewer does not take effect, whatever role the guest announced in join_room:
   the Playback State and the pending requests stay as they were. *)
C36_PersistedRoleDecides ==
    (/\ call.op \in {"video:play", "video:pause", "video:seek", "video:switch",
                      "approve:request"}
     /\ PersistedRole(call.guest_id) = "viewer") =>
        /\ video_state = before.video_state
        /\ pending_requests = before.pending_requests

\* The guests whose kick has been committed.
Kicked == {g \in DOMAIN guests : guests[g].kicked}

(* C37: once kick_guest(g) has completed, g is not registered as online in the
   room, and a control message or request approval that g's connection sends
   afterwards is answered 'Unauthorized' and changes no room state. *)
C37_KickedIsOut ==
    /\ \A g \in Kicked : \A r \in Rooms : ~get_guest_presence(r, g).online
    /\ (/\ call.op \in {"video:play", "video:pause", "video:seek", "video:switch",
                          "approve:request"}
        /\ call.guest_id \in Kicked) =>
           /\ video_state = before.video_state
           /\ pending_requests = before.pending_requests
           /\ outbox = <<ErrorTo(call.sid, "Unauthorized")>>

(* C31: kick_guest never reports success while no ban for the guest's IP and
   fingerprint has been recorded: a failed ban write is retried or reported. *)
C31_BanRecorded ==
    call.op = "kick_guest" => BanKeys(call.guest_id) \subseteq DOMAIN bans

(* C16: an accept_guest or reject_guest on a guest whose join_status is already
   accepted or rejected leaves the join_status as it was. *)
C16_StatusTerminal ==
    (Committed({"accept_guest", "reject_guest"})
        /\ TheState(call.was).join_status # "pending") =>
        guests[call.guest_id].join_status = TheState(call.was).join_status

(* C17: kick_guest sets kicked only on a guest whose join_status is accepted, and
   no moderation operation resets a kicked flag that is true. *)
C17_KickedFromAccepted ==
    /\ (Committed({"kick_guest"}) /\ TheState(call.was).join_status # "accepted") =>
            guests[call.guest_id].kicked = TheState(call.was).kicked
    /\ (Committed(UpdateOps) /\ TheState(call.was).kicked) =>
            guests[call.guest_id].kicked

NotifiedOps == {"accept_guest", "update_permissions", "kick_guest"}

(* C18: when accept, permission update or kick has emitted its notification
   events, the guest's row as committed in the database holds the change the
   request made. *)
C18_CommitBeforeNotify ==
    (call.op \in NotifiedOps /\ outbox # <<>>) =>
        /\ call.guest_id \in DOMAIN guests
        /\ guests[call.guest_id] = View(call.session)

\* The requests the last sweep found older than RequestMaxAge.
SweptIds ==
    {k \in DOMAIN before.pending_requests :
        call.at - before.pending_requests[k].timestamp > RequestMaxAge}

SweepExpiresOld ==
    call.op = "cleanup" =>
        /\ pending_requests = Without(before.pending_requests, SweptIds)
        /\ Len(outbox) = Cardinality(SweptIds)
        /\ \A k \in SweptIds :
              Emitted(ToRoom(before.pending_requests[k].room_id, "request_dismissed",
                             [request_id |-> k]))

----------------------------------------------------------------------------
(* The LiveKit webhook signature.  Strings are sequences of characters; the   *)
(* HMAC-SHA256 digest is cut down to two bytes, which like the 32 bytes of the *)
(* real digest leave one '=' of padding in base64.                             *)

HexDigits == <<"0", "1", "2", "3", "4", "5", "6", "7", "8", "9", "a", "b", "c", "d", "e", "f">>
UpperHexLetters == <<"A", "B", "C", "D", "E", "F">>
Base64Alphabet ==
    <<"A", "B", "C", "D", "E", "F", "G", "H", "I", "J", "K", "L", "M", "N",
    "O", "P", "Q", "R", "S", "T", "U", "V", "W", "X", "Y", "Z", "a", "b",
    "c", "d", "e", "f", "g", "h", "i", "j", "k", "l", "m", "n", "o", "p",
    "q", "r", "s", "t", "u", "v", "w", "x", "y", "z", "0", "1", "2", "3",
    "4", "5", "6", "7", "8", "9", "+", "/">>

IndexIn(seq, c) == CHOOSE i \in 1..Len(seq) : seq[i] = c

IsHexChar(c) == c \in SeqToSet(HexDigits) \cup SeqToSet(UpperHexLetters)

\* str.lower() on the hex letters.
LowerOf(c) ==
    IF c \in SeqToSet(UpperHexLetters) THEN HexDigits[10 + IndexIn(UpperHexLetters, c)]
    ELSE c

Lower(str) == [i \in 1..Len(str) |-> LowerOf(str[i])]

\* str.upper() on the hex letters.
UpperOf(c) ==
    IF c \in SeqToSet(HexDigits) /\ IndexIn(HexDigits, c) > 10
    THEN UpperHexLetters[IndexIn(HexDigits, c) - 10]
    ELSE c

Upper(str) == [i \in 1..Len(str) |-> UpperOf(str[i])]

StartsWith(str, prefix) ==
    Len(str) >= Len(prefix) /\ SubSeq(str, 1, Len(prefix)) = prefix

\* str.split(sep, 1)[1] for a string that contains the character sep.
AfterFirst(str, sep) ==
    LET i == CHOOSE k \in 1..Len(str) :
                 str[k] = sep /\ \A j \in 1..(k - 1) : str[j] # sep
    IN  SubSeq(str, i + 1, Len(str))

\* str.strip() for the blank.
RECURSIVE Strip(_)
Strip(str) ==
    IF str = <<>> THEN str
    ELSE IF Head(str) = " " THEN Strip(Tail(str))
    ELSE IF str[Len(str)] = " " THEN Strip(SubSeq(str, 1, Len(str) - 1))
    ELSE str

\* bytes.hex() and hexdigest(): two lower-case hex digits for each byte.
Hex(bytes) ==
    [i \in 1..(2 * Len(bytes)) |->
        LET b == bytes[(i + 1) \div 2]
        IN  IF i % 2 = 1 THEN HexDigits[(b \div 16) + 1] ELSE HexDigits[(b % 16) + 1]]

\* base64.b64encode.
RECURSIVE b64encode(_)
b64encode(bytes) ==
    LET ch(v) == Base64Alphabet[v + 1]
    IN  IF bytes = <<>> THEN <<>>
        ELSE IF Len(bytes) = 1
        THEN <<ch(bytes[1] \div 4), ch((bytes[1] % 4) * 16), "=", "=">>
        ELSE IF Len(bytes) = 2
        THEN LET v == bytes[1] * 256 + bytes[2]
             IN  <<ch(v \div 1024), ch((v \div 16) % 64), ch((v % 16) * 4), "=">>
        ELSE LET v == bytes[1] * 65536 + bytes[2] * 256 + bytes[3]
             IN  <<ch(v \div 262144), ch((v \div 4096) % 64), ch((v \div 64) % 64),
                   ch(v % 64)>> \o b64encode(SubSeq(bytes, 4, Len(bytes)))

\* The bytes that a run of base64 digits stands for.
RECURSIVE FromSextets(_)
FromSextets(d) ==
    IF Len(d) < 2 THEN <<>>
    ELSE IF Len(d) = 2 THEN <<(d[1] * 64 + d[2]) \div 16>>
    ELSE IF Len(d) = 3
    THEN LET v == d[1] * 4096 + d[2] * 64 + d[3]
         IN  <<v \div 1024, (v \div 4) % 256>>
    ELSE LET v == d[1] * 262144 + d[2] * 4096 + d[3] * 64 + d[4]
         IN  <<v \div 65536, (v \div 256) % 256, v % 256>>
             \o FromSextets(SubSeq(d, 5, Len(d)))

\* base64.b64decode(token) without validate: characters outside the alphabet are
\* discarded; {} stands for binascii.Error (incorrect padding).
b64decode(token) ==
    LET IsDigit(c) == c \in SeqToSet(Base64Alphabet)
        IsPad(c) == c = "="
        digits == SelectSeq(token, IsDigit)
        pads == Len(SelectSeq(token, IsPad))
        n == Len(digits) % 4
    IN  IF n = 1 \/ (n = 2 /\ pads < 2) \/ (n = 3 /\ pads < 1) THEN {}
        ELSE {FromSextets([i \in 1..Len(digits) |->
                              IndexIn(Base64Alphabet, digits[i]) - 1])}

\* int(token, 16) does not raise (tokens without sign, 0x prefix or underscore).
IsHexInt(token) == token # <<>> /\ \A i \in 1..Len(token) : IsHexChar(token[i])

WebhookBodies == {"b1", "b2", "b3"}

\* hmac.new(settings.LIVEKIT_WEBHOOK_SECRET.encode(), body, hashlib.sha256).digest()
Digest(body) ==
    IF body = "b1" THEN <<171, 18>> ELSE IF body = "b2" THEN <<4, 239>> ELSE <<18, 52>>

\* The hex string that verify_webhook_signature takes from the header: {} is None.
hex_sig(signature) ==
    LET sig == Strip(signature)
    IN  IF StartsWith(sig, <<"s", "h", "a", "2", "5", "6", "=">>) \/ StartsWith(sig, <<"v", "1", "=">>)
        THEN {AfterFirst(sig, "=")}
        ELSE IF StartsWith(sig, <<"S", "i", "g", "n", "a", "t", "u", "r", "e", " ">>)
                \/ StartsWith(sig, <<"s", "i", "g", "n", "a", "t", "u", "r", "e", " ">>)
        THEN {AfterFirst(sig, " ")}
        ELSE IF StartsWith(sig, <<"B", "e", "a", "r", "e", "r", " ">>)
        THEN LET token == AfterFirst(sig, " ")
             IN  IF IsHexInt(token) THEN {token}
                 ELSE {Hex(raw) : raw \in b64decode(token)}
        ELSE IF \A i \in 1..Len(sig) : IsHexChar(sig[i]) THEN {sig} ELSE {}

\* The value verify_webhook_signature returns.
WebhookVerdict(body, signature) ==
    LET found == hex_sig(signature)
    IN  IF found = {} \/ found = {<<>>} THEN FALSE
        ELSE TheState(found) = Hex(Digest(body))

\* Mutant: a check that only looks at the format.
WebhookVerdictAny(body, signature) ==
    LET found == hex_sig(signature)
    IN  ~(found = {} \/ found = {<<>>})

verify_webhook_signature(body, signature) ==
    /\ call' = [op |-> "verify_webhook_signature", body |-> body,
                signature |-> signature, result |-> WebhookVerdict(body, signature)]
    /\ Emit(<<>>)
    /\ UNCHANGED <<room_connections, pending_requests, next_request_id, video_state, now,
                   chat_vars, db_vars, task_vars, registry_vars>>

\* The header values tried: each prefix before each token.
SignaturePrefixes ==
    {<<>>, <<"s", "h", "a", "2", "5", "6", "=">>, <<"v", "1", "=">>,
     <<"S", "i", "g", "n", "a", "t", "u", "r", "e", " ">>, <<"s", "i", "g", "n", "a", "t", "u", "r", "e", " ">>,
     <<"B", "e", "a", "r", "e", "r", " ">>, <<"T", "o", "k", "e", "n", " ">>}

\* The tokens tried for a body whose digest another body's digest differs from:
\* the digest in lower-case and upper-case hex and in base64, the other digest in
\* hex and base64, the base64 with a character outside the alphabet, and no hex.
SignatureTokens(body) ==
    LET other == IF body = "b1" THEN "b2" ELSE "b1"
        b64 == b64encode(Digest(body))
    IN  {Hex(Digest(body)), Upper(Hex(Digest(body))), b64encode(Digest(body)),
         Hex(Digest(other)), b64encode(Digest(other)),
         <<b64[1], "!">> \o Tail(b64), <<>>, <<"z", "z">>}

NextWebhook ==
    \E body \in WebhookBodies :
       \E prefix \in SignaturePrefixes, token \in SignatureTokens(body) :
          verify_webhook_signature(body, prefix \o token)

SpecWebhook == Init /\ [][NextWebhook]_vars

\* The forms in which a signature may be presented, and the digest each carries.
HexForms == {<<>>, <<"s", "h", "a", "2", "5", "6", "=">>, <<"v", "1", "=">>,
             <<"S", "i", "g", "n", "a", "t", "u", "r", "e", " ">>, <<"B", "e", "a", "r", "e", "r", " ">>}

Carries(signature, digest) ==
    \/ \E prefix \in HexForms :
          /\ StartsWith(signature, prefix)
          /\ Lower(SubSeq(signature, Len(prefix) + 1, Len(signature))) = Hex(digest)
    \/ signature = <<"B", "e", "a", "r", "e", "r", " ">> \o b64encode(digest)

(* C34: the webhook signature check returns true exactly when the signature,
   presented as bare hex, 'sha256=<hex>', 'v1=<hex>', 'Signature <hex>',
   'Bearer <hex>' or 'Bearer <base64 of the digest bytes>', carries the
   HMAC-SHA256 digest of the body; for every other value it returns false. *)
C34_SignatureAccepted ==
    call.op = "verify_webhook_signature" =>
        (call.result <=> Carries(call.signature, Digest(call.body)))

\* The requests whose approval has been stored: no longer pending, or in a task
\* that is past its set_video_state.
Applied ==
    {q \in 1..(next_request_id - 1) :
        \/ q \notin DOMAIN pending_requests
        \/ \E h \in Handlers : /\ handlers[h].pc \in {"approve_emit", "approve_delete"}
                                /\ handlers[h].request_id = q}

(* C35: a pending request is consumed at most once, also when two approve:request
   calls for it overlap: the position stored after a play at ApprovePlayAt is
   never further back than one rewind for each request approved. *)
C35_ConsumedOnce ==
    \A r \in Rooms : \A s \in RewindSeconds :
        video_state[r] # {} =>
            TheState(video_state[r]).current_timestamp
                >= ApprovePlayAt - s * Cardinality(Applied)

(* C33: a KeyError inside one round of the expiry sweep, for a request that an
   overlapping approve or dismiss removed while the sweep was suspended in an emit,
   does not stop the sweep: the task sleeps and wakes again, and every request is
   still removed in the end. *)
C33_SweepSurvives ==
    /\ [](call.op = "sweep:error" =>
            sweep_expired = {} /\ sweep_at = call.at + SweepInterval)
    /\ \A q \in 1..Backlog :
          (q \in DOMAIN pending_requests) ~> (q \notin DOMAIN pending_requests)

\* The sweep has hit the error with an expired request still to be removed.
C33_Witness ==
    /\ call.op = "sweep:error"
    /\ \E i \in 1..Len(call.left) : call.left[i] \in DOMAIN pending_requests

(* C14: every pending request is eventually removed; a sweep removes exactly the
   requests older than 60 s and broadcasts request_dismissed for each of them to
   its room. *)
C14_SweepExpires ==
    /\ []SweepExpiresOld
    /\ \A q \in 1..MaxRequests :
          (q \in DOMAIN pending_requests) ~> (q \notin DOMAIN pending_requests)

C14_Witness ==
    /\ call.op = "cleanup"
    /\ SweptIds # {}
    /\ DOMAIN pending_requests # {}

EntriesWithId(log, id) == {i \in 1..Len(log) : json_loads(log[i]).id = id}

\* C40: when add_message calls carrying one client-supplied id for one room
\* overlap, the room's log holds exactly one message with that id afterwards.
C40_OneEntryPerId ==
    (chat_call.op = "add_message" /\ chat_call.message_id # NoId) =>
        Cardinality(EntriesWithId(chat_messages[chat_call.room_id],
                                  chat_call.message_id)) = 1

\* The last two add_reaction calls that returned were made by two authors for one
\* (room, message, emoji).
TwoAuthorsReacted ==
    /\ chat_call.op = "add_reaction"
    /\ chat_prev.op = "add_reaction"
    /\ chat_call.room_id = chat_prev.room_id
    /\ chat_call.message_id = chat_prev.message_id
    /\ chat_call.emoji = chat_prev.emoji
    /\ chat_call.user_id # chat_prev.user_id

\* C38: when add_reaction calls of two authors for one (room, message, emoji)
\* overlap, both authors are in the emoji's set afterwards; and no author is in a
\* set twice.
C38_BothReactions ==
    /\ TwoAuthorsReacted =>
          {chat_call.user_id, chat_prev.user_id} \subseteq
             SeqToSet(get_reactions(chat_call.room_id,
                                    chat_call.message_id)[chat_call.emoji])
    /\ \A r \in Rooms, m \in MessageIds :
          \A e \in DOMAIN get_reactions(r, m) :
             Cardinality(SeqToSet(get_reactions(r, m)[e])) = Len(get_reactions(r, m)[e])

\* The last two chat calls are add_message calls for one room with one
\* client-supplied id that the log did not hold before the first of them.
SameIdTwice ==
    /\ chat_call.op = "add_message"
    /\ chat_prev.op = "add_message"
    /\ chat_call.room_id = chat_prev.room_id
    /\ chat_call.message_id # NoId
    /\ chat_call.message_id = chat_prev.message_id
    /\ ~chat_prev.existed

\* The first call's message is made of the first call's arguments.
FirstCallsMessage ==
    /\ chat_prev.result.id = chat_prev.message_id
    /\ chat_prev.result.message = chat_prev.message
    /\ chat_prev.result.user_id = chat_prev.user_id
    /\ chat_prev.result.username = chat_prev.username
    /\ chat_prev.result.timestamp =
          (IF chat_prev.timestamp # NoTimestamp THEN chat_prev.timestamp ELSE now)

AddThenRemove ==
    /\ chat_call.op = "remove_reaction"
    /\ chat_prev.op = "add_reaction"
    /\ chat_call.room_id = chat_prev.room_id
    /\ chat_call.message_id = chat_prev.message_id
    /\ chat_call.emoji = chat_prev.emoji
    /\ chat_call.user_id = chat_prev.user_id
    /\ \/ chat_prev.emoji \notin DOMAIN chat_prev.found
       \/ chat_prev.user_id \notin SeqToSet(chat_prev.found[chat_prev.emoji])

\* C9: add_reaction followed by remove_reaction for one (room, message, emoji,
\* author), the author not yet in the emoji's set, restores get_reactions to its
\* value before the add; the emoji key is absent afterwards if the author was its
\* only reactor; and no emoji key ever maps to an empty set.
C9_RoundTrip ==
    /\ AddThenRemove =>
          /\ get_reactions(chat_call.room_id, chat_call.message_id) = chat_prev.found
          /\ chat_call.found[chat_call.emoji] = <<chat_call.user_id>> =>
                chat_call.emoji \notin
                    DOMAIN get_reactions(chat_call.room_id, chat_call.message_id)
    /\ \A r \in Rooms, m \in MessageIds :
          \A e \in DOMAIN get_reactions(r, m) : get_reactions(r, m)[e] # <<>>

\* The author was the emoji's only reactor, while another emoji has a reactor.
C9_Witness ==
    /\ AddThenRemove
    /\ chat_call.found[chat_call.emoji] = <<chat_call.user_id>>
    /\ chat_call.result
    /\ DOMAIN chat_prev.found # {}

----------------------------------------------------------------------------
(* Moderators and their permissions *)

\* C6: in every state of the guests table reachable through guest join, admin
\* join, accept, reject, kick, update_permissions, promote and demote, every
\* guest whose role is moderator has can_chat and can_voice true.
C6_ModeratorPermissions ==
    \A g \in DOMAIN guests :
        guests[g].role = "moderator" => guests[g].permissions_json = Perms(TRUE, TRUE)

\* C7: once promote_guest(g) has completed, g's stored permissions have can_chat
\* and can_voice true, also when an update_permissions(g, {can_chat: false})
\* overlaps with the promotion.
C7_PromotedPermissions ==
    \A g \in DOMAIN guests :
        promoted[g] => /\ guests[g].permissions_json.can_chat
                       /\ guests[g].permissions_json.can_voice

----------------------------------------------------------------------------
(* Promotion and playback control *)

\* The last call is a video:play at position 10.0 from a connected guest whom the
\* admin has accepted and promoted.
PromotedGuestPlays ==
    /\ call.op = "video:play"
    /\ call.room_id \in Rooms
    /\ call.timestamp = 20
    /\ call.guest_id \in DOMAIN guests
    /\ guests[call.guest_id].join_status = "accepted"
    /\ promoted[call.guest_id]
    /\ call.guest_id \in DOMAIN room_connections[call.room_id]
    /\ room_connections[call.room_id][call.guest_id].sid = call.sid

\* C5: after an admin has accepted and then promoted guest A while A is connected
\* to the room, a video:play from A at position 10.0 is authorized: a video_state
\* with is_playing true and current_timestamp 10.0 is stored and broadcast to the
\* room.
C5_PromotedGuestPlays ==
    PromotedGuestPlays =>
        /\ video_state[call.room_id] # {}
        /\ TheState(video_state[call.room_id]).is_playing
        /\ TheState(video_state[call.room_id]).current_timestamp = 20
        /\ \E i \in 1..Len(outbox) :
              /\ IsVideoStateTo(outbox[i], call.room_id)
              /\ outbox[i].payload = TheState(video_state[call.room_id])
====
